---- MODULE Spec2Model ----
(***************************************************************************)
(* Model of the bounded MPSC inbox channel (src/src/lib.rs): the status    *)
(* word, the slots, the reference count, the pending-sender waker list and *)
(* the receiver waker, with try_send / try_recv / Drop taken one atomic    *)
(* memory access at a time, and the SendValue / RecvValue futures built on *)
(* them. The process scheduler (add_new_process, mark_ready, next_process, *)
(* add_back_process, complete) is modelled next to it, on variables of its *)
(* own.                                                                    *)
(***************************************************************************)
EXTENDS Integers, Sequences, FiniteSets, TLC

----------------------------------------------------------------------------
(* Bounds of the model.                                                    *)

\* Width of a usize word in the model (the program's is 64): the status word
\* holds SMALL_CAP * STATUS_BITS status bits and above them the receiver
\* position counter; the reference count holds its two ALIVE bits on top.
UsizeBits == 19
\* Number of Sender handles that can exist.
NumSenders == 2
\* Number of values in flight or accepted (values are 1..MaxSends), when calls
\* run one after the other.
MaxSends == 9
\* The same, for the specification with the futures (a full channel, a
\* pending send and a send that overtakes it).
MaxFutSends == 10
\* The same, when calls may overlap.
MaxRaceSends == 9
\* Number of calls that may be started while another call is in progress.
MaxOverlap == 1
MaxSlotSends == 10
MaxSlotOverlap == 2
MaxNodes == 2
\* The clock's resolution: a Duration of t ticks is t / TicksPerSecond seconds.
TicksPerSecond == 2
MaxListWakers == 2
\* Number of values (values are 1..MaxParkSends, the first SMALL_CAP of them
\* fill the channel) and number of calls started while another call is in
\* progress, where send futures are polled on a full channel.
MaxParkSends == 10
MaxParkOverlap == 2
\* Number of ProcessIds the scheduler hands out (ids are 1..MaxPids).
MaxPids == 3
\* Largest runtime a process accumulates.
MaxRuntime == 2
\* Number of next_process calls in a row (without another scheduler
\* operation in between).
MaxLog == 4
\* Number of task wakers that exist at a time.
MaxWakers == 2
\* Number of addresses a process can be allocated at (addresses are
\* 1..MaxAddrs).
MaxAddrs == 4
\* Number of processes that exist at a time where their addresses are
\* followed.
MaxPinned == 2
\* Number of processes the thread-local and the shared scheduler of a worker
\* are given (local pids are 1..NumLocal, the shared ones follow them).
NumLocal == 1
NumShared == 1
\* The worker's clock runs from 0 to MaxTime; a timer is set at most
\* MaxDelay ahead.
MaxTime == 2
MaxDelay == 2
\* Number of timers that are set at a time.
MaxTimers == 2
\* The dispatches a ready thread-local process is followed while waiting.
MaxWaited == 40
\* An ActorProcess is run at most MaxRuns times and its actor restarted at
\* most MaxRestarts times; inboxes are 1..MaxInboxes, arguments 1..MaxArgs.
MaxRuns == 2
MaxRestarts == 2
MaxInboxes == 2
MaxArgs == 2

----------------------------------------------------------------------------
(* Program constants (src/src/lib.rs lines 96-174).                        *)

SMALL_CAP == 8
STATUS_BITS == 2
STATUS_MASK == (2 ^ STATUS_BITS) - 1
EMPTY == 0
TAKEN == 1
FILLED == 3
READING == 2
MARK_TAKEN == 1
MARK_FILLED == 3
MARK_READING == 1
MARK_EMPTIED == 3
POS_BITS == 3
POS_MASK == (2 ^ POS_BITS) - 1
MARK_NEXT_POS == 2 ^ (STATUS_BITS * SMALL_CAP)
RECEIVER_ALIVE == 2 ^ (UsizeBits - 1)
MANAGER_ALIVE == 2 ^ (UsizeBits - 2)

----------------------------------------------------------------------------
(* usize arithmetic: bitwise operators and wrapping addition.              *)

WordMod == 2 ^ UsizeBits

RECURSIVE BitAnd(_, _)
BitAnd(a, b) ==
    IF a = 0 \/ b = 0 THEN 0
    ELSE (IF a % 2 = 1 /\ b % 2 = 1 THEN 1 ELSE 0) + 2 * BitAnd(a \div 2, b \div 2)

RECURSIVE BitOr(_, _)
BitOr(a, b) ==
    IF a = 0 THEN b
    ELSE IF b = 0 THEN a
    ELSE (IF a % 2 = 1 \/ b % 2 = 1 THEN 1 ELSE 0) + 2 * BitOr(a \div 2, b \div 2)

RECURSIVE BitXor(_, _)
BitXor(a, b) ==
    IF a = 0 THEN b
    ELSE IF b = 0 THEN a
    ELSE (IF a % 2 # b % 2 THEN 1 ELSE 0) + 2 * BitXor(a \div 2, b \div 2)

BitNot(a) == (WordMod - 1) - a

\* fetch_add gone wrong: the sum stops at the largest word instead of wrapping.
SaturatingAdd(a, b) == IF a + b >= WordMod THEN WordMod - 1 ELSE a + b

WrappingAdd(a, b) == (a + b) % WordMod

\* fetch_sub gone wrong: the count is read but not decremented.
WrappingSubKeeps(a, b) == a

WrappingSub(a, b) == (a + WordMod - b) % WordMod

----------------------------------------------------------------------------
(* Slot status helpers.                                                    *)

slot_status(st, slot) == (st \div (2 ^ (STATUS_BITS * slot))) % (STATUS_MASK + 1)

has_status(st, slot, expected) == slot_status(st, slot) = expected

\* is_available gone wrong: a slot the receiver is reading passes for empty.
is_available_or_reading(st, slot) ==
    has_status(st, slot, EMPTY) \/ has_status(st, slot, READING)

is_available(st, slot) == has_status(st, slot, EMPTY)

\* is_filled gone wrong: any slot that is not EMPTY passes for filled.
is_filled_not_empty(st, slot) == ~has_status(st, slot, EMPTY)

is_filled(st, slot) == has_status(st, slot, FILLED)

\* mark_slot gone wrong: shifted by the slot index, not by its bit offset.
mark_slot_unscaled(slot, transition) == transition * (2 ^ slot)

mark_slot(slot, transition) == transition * (2 ^ (STATUS_BITS * slot))

\* receiver_pos gone wrong: the position bits are not shifted down.
receiver_pos_unshifted(st) == BitAnd(st, POS_MASK)

receiver_pos(st) == (st \div (2 ^ (STATUS_BITS * SMALL_CAP))) % (POS_MASK + 1)

\* The slot visited by iteration k of `(0..SMALL_CAP).cycle().skip(start).take(SMALL_CAP)`.
\* The slot index gone wrong: wrapped one slot short of the capacity.
ScanSlotShort(start, k) == (start + k) % (SMALL_CAP - 1)

ScanSlot(start, k) == (start + k) % SMALL_CAP

\* First iteration >= k of the try_send loop whose slot is available in the
\* local status `st` (SMALL_CAP when the loop runs out).
RECURSIVE NextAvailable(_, _, _)
NextAvailable(st, start, k) ==
    IF k >= SMALL_CAP THEN SMALL_CAP
    ELSE IF is_available(st, ScanSlot(start, k)) THEN k
    ELSE NextAvailable(st, start, k + 1)

\* First iteration >= k of the try_recv loop whose slot is filled in the
\* local status `st` (SMALL_CAP when the loop runs out).
RECURSIVE NextFilled(_, _, _)
NextFilled(st, start, k) ==
    IF k >= SMALL_CAP THEN SMALL_CAP
    ELSE IF is_filled(st, ScanSlot(start, k)) THEN k
    ELSE NextFilled(st, start, k + 1)

----------------------------------------------------------------------------
(* Reference count helpers.                                                *)

\* Sender::is_connected gone wrong: both the Receiver and the Manager are
\* asked for.
SenderIsConnectedBoth(rc) ==
    BitAnd(rc, RECEIVER_ALIVE + MANAGER_ALIVE) = RECEIVER_ALIVE + MANAGER_ALIVE

\* Sender::is_connected gone wrong: the Receiver is not counted.
SenderIsConnectedManagerOnly(rc) == BitAnd(rc, MANAGER_ALIVE) # 0

\* Sender::is_connected gone wrong: the Manager is not counted.
SenderIsConnectedReceiverOnly(rc) == BitAnd(rc, RECEIVER_ALIVE) # 0

\* Sender::is_connected: the Receiver or the Manager is alive.
SenderIsConnected(rc) == BitAnd(rc, RECEIVER_ALIVE + MANAGER_ALIVE) # 0

\* Receiver::is_connected gone wrong: the Manager is counted as a Sender.
ReceiverIsConnectedManagerCounted(rc) == BitAnd(rc, BitNot(RECEIVER_ALIVE)) > 0

\* Receiver::is_connected gone wrong: the handle bits are not masked out.
ReceiverIsConnectedUnmasked(rc) == rc > 0

\* Receiver::is_connected: at least one Sender is alive.
ReceiverIsConnected(rc) == BitAnd(rc, BitNot(RECEIVER_ALIVE + MANAGER_ALIVE)) > 0

\* Sender::only_sender.
only_sender(rc) == BitAnd(rc, BitNot(RECEIVER_ALIVE + MANAGER_ALIVE)) = 1

----------------------------------------------------------------------------
(* State.                                                                  *)

VARIABLES
    status,                 \* Channel::status
    slots,                  \* Channel::slots (0: uninitialised)
    ref_count,              \* Channel::ref_count
    sender_waker_head,      \* Channel::sender_waker_head (0: null)
    nodes,                  \* the WakerList node of each sender's SendValue
    receiver_waker,         \* Channel::receiver_waker (0: None)
    receiver_needs_wakeup,  \* Channel::receiver_needs_wakeup
    freed,                  \* the Channel allocation was dropped
    snd,                    \* per Sender: the handle and the call it is in
    rcv,                    \* the Receiver: the handle and the call it is in
    mgr,                    \* a Manager handle exists
    fut,                    \* per Sender: its SendValue future
    task,                   \* per task waker: parked / wake-ups since its last poll
    nsent,                  \* the last value handed to try_send / send
    accepted,               \* values a try_send has marked FILLED
    received,               \* values returned by try_recv, in order
    ret,                    \* what the last step returned to its caller, if it returned
    overlaps,               \* calls started while another call was in progress
    ready,                  \* Scheduler: the READY processes, a new one at the tail
    inactive,               \* Scheduler: the INACTIVE processes
    running,                \* the processes next_process handed out, in that order
    log,                    \* what the next_process calls since the last other
                            \* scheduler operation returned
    marked,                 \* the pid of the latest mark_ready calls and how many
                            \* of them came in a row
    wakers,                 \* the task wakers that exist (new_task_waker, clone)
    woke,                   \* the waker that was woken last
    scheduler,              \* worker: the thread-local scheduler's processes
    scheduler_ref,          \* worker: the shared scheduler's processes
    waker_events,           \* worker: the pids sent by wakers, not yet received
    timers,                 \* worker: the deadlines set and their pids
    now,                    \* worker: the clock (Instant::now())
    worker,                 \* worker: where run_event_loop is, and its locals
    actor_process,          \* an ActorProcess, its actor and its run call
    waker_list              \* the pending-sender list, one memory access per step

chanVars == <<status, slots, ref_count, sender_waker_head, nodes, receiver_waker,
              receiver_needs_wakeup, freed>>
vars == <<status, slots, ref_count, sender_waker_head, nodes, receiver_waker,
          receiver_needs_wakeup, freed, snd, rcv, mgr, fut, task, nsent,
          accepted, received, ret, overlaps, ready, inactive, running, log, marked,
          wakers, woke, scheduler, scheduler_ref, waker_events, timers, now,
          worker, actor_process, waker_list>>
inboxVars == <<status, slots, ref_count, sender_waker_head, nodes, receiver_waker,
               receiver_needs_wakeup, freed, snd, rcv, mgr, fut, task, nsent,
               accepted, received, ret, overlaps>>
schedVars == <<ready, inactive, running, log, marked>>
wakerVars == <<wakers, woke>>
workerVars == <<scheduler, scheduler_ref, waker_events, timers, now, worker>>
\* What a step of the channel leaves alone.
actorVars == <<actor_process>>
listVars == <<waker_list>>
notInboxVars == <<schedVars, wakerVars, workerVars, actorVars, listVars>>
\* What an operation of the scheduler leaves alone.
notSchedVars == <<inboxVars, wakerVars, workerVars, actorVars, listVars>>

Senders == 1 .. NumSenders
Slots == 0 .. (SMALL_CAP - 1)
\* Thread / task-waker identities: sender s is s, then the receiver.
RecvId == NumSenders + 1
MgrId == NumSenders + 2

IdleSnd(h) == [h |-> h, pc |-> "idle", op |-> "none", status |-> 0, start |-> 0,
               k |-> 0, value |-> 0, clean |-> TRUE]
\* by_manager is a ghost field of the Receiver handle: it was made by
\* Manager::new_receiver.
IdleRcvAt(h, by_manager) ==
    [h |-> h, pc |-> "idle", op |-> "none", status |-> 0, start |-> 0,
     k |-> 0, value |-> 0, conn |-> FALSE, clean |-> TRUE,
     by_manager |-> by_manager]
IdleRcv(h) == IdleRcvAt(h, h /\ rcv.by_manager)
NoFut == [st |-> "none", value |-> 0, has_node |-> FALSE]
NoNode == [waker |-> 0, next |-> 0]
NoRet == [who |-> 0, op |-> "none", kind |-> "none", val |-> 0, clean |-> TRUE]
Returned(who, op, kind, val, clean) ==
    [who |-> who, op |-> op, kind |-> kind, val |-> val, clean |-> clean]

\* new_small() (with_manager = FALSE) or Manager::new_small_channel().
NewChannel(with_manager) ==
    /\ status = 0
    /\ slots = [i \in Slots |-> 0]
    /\ ref_count = RECEIVER_ALIVE + 1 + (IF with_manager THEN MANAGER_ALIVE ELSE 0)
    /\ sender_waker_head = 0
    /\ nodes = [s \in Senders |-> NoNode]
    /\ receiver_waker = 0
    /\ receiver_needs_wakeup = FALSE
    /\ freed = FALSE
    /\ snd = [s \in Senders |-> IdleSnd(s = 1)]
    /\ rcv = IdleRcvAt(TRUE, FALSE)
    /\ mgr = with_manager

NoCalls ==
    /\ fut = [s \in Senders |-> NoFut]
    /\ task = [w \in 1 .. RecvId |-> [parked |-> FALSE, nwake |-> 0]]
    /\ nsent = 0
    /\ accepted = {}
    /\ received = <<>>
    /\ ret = NoRet
    /\ overlaps = 0

\* No ActorProcess was made yet.
NoActorProcess ==
    [pc |-> "none", pid |-> 0, inbox |-> 0,
     actor |-> [pid |-> 0, inbox |-> 0, arg |-> 0, restarts |-> 0],
     runs |-> 0, polls |-> 0, restarted |-> 0, polled |-> "none",
     result |-> "none"]

\* Worker::setup(): the schedulers, the waker channel and the timers are
\* empty and run_event_loop was not called yet.
NewWorker ==
    /\ scheduler = [ready |-> {}, inactive |-> {}]
    /\ scheduler_ref = [ready |-> {}, inactive |-> {}]
    /\ waker_events = {}
    /\ timers = {}
    /\ now = 0
    /\ worker = [pc |-> "new", iter |-> 0, pid |-> 0, from |-> "none",
                 timeout |-> "none", until |-> 0, polls |-> 0, waited |-> 0,
                 done |-> {}, mark_waker |-> FALSE, woken |-> {}]

\* The SendValue futures with a WakerList node, and pointers to the nodes
\* (0 is the null pointer).  Thread 0 is the receiver, thread n the task
\* that owns future n.
ListNodes == 1 .. MaxNodes
ListPtrs == 0 .. MaxNodes
ListThreads == 0 .. MaxNodes
\* The task wakers a send future can be polled with.
ListWakers == 1 .. MaxListWakers
NoListCall == [pc |-> "idle", node |-> 0, ptr |-> 0, parent |-> 0,
               head_ptr |-> 0, next_ptr |-> 0, waker |-> 0]
\* Channel::new(), lines 814-817: sender_waker_head is null; no future has
\* made its node.
NoWakerList ==
    [head |-> 0,
     next |-> [n \in ListNodes |-> 0],
     waker |-> [n \in ListNodes |-> 0],
     fut |-> [n \in ListNodes |-> "new"],
     calls |-> [t \in ListThreads |-> NoListCall],
     popped |-> {}, uaf |-> {},
     \* ghosts: the nodes in the order of their add_waker calls, the waker of
     \* each future's first and latest poll, the <<node, waker>> pairs that
     \* next_waker returned, and how often each node's waker was returned
     order |-> <<>>,
     first |-> [n \in ListNodes |-> 0],
     supplied |-> [n \in ListNodes |-> 0],
     woken |-> {},
     wakes |-> [n \in ListNodes |-> 0]]

\* Scheduler::new(): no process is stored.
NewScheduler ==
    /\ ready = <<>>
    /\ inactive = {}
    /\ running = <<>>
    /\ log = <<>>
    /\ marked = [pid |-> 0, n |-> 0]
    /\ wakers = [k \in 1 .. MaxWakers |->
                    [data |-> 0, slot |-> 0, pid |-> 0, clone |-> FALSE]]
    /\ woke = [slot |-> 0, pid |-> 0, orphan |-> FALSE, found |-> FALSE]
    /\ NewWorker
    /\ actor_process = NoActorProcess
    /\ waker_list = NoWakerList

\* A channel made by new_small() or by Manager::new_small_channel().
Init == (\E with_manager \in BOOLEAN : NewChannel(with_manager)) /\ NoCalls
        /\ NewScheduler

\* A channel made by Manager::new_small_channel().
InitManaged == NewChannel(TRUE) /\ NoCalls /\ NewScheduler

\* A channel made by new_small().
InitSmall == NewChannel(FALSE) /\ NoCalls /\ NewScheduler

\* A channel made by new_small() after its Sender was cloned for every
\* sender and SMALL_CAP try_send calls have filled it with 1..SMALL_CAP.
FullChannel ==
    /\ status = MARK_NEXT_POS - 1
    /\ slots = [i \in Slots |-> i + 1]
    /\ ref_count = RECEIVER_ALIVE + NumSenders
    /\ sender_waker_head = 0
    /\ nodes = [s \in Senders |-> NoNode]
    /\ receiver_waker = 0
    /\ receiver_needs_wakeup = FALSE
    /\ freed = FALSE
    /\ snd = [s \in Senders |-> IdleSnd(TRUE)]
    /\ rcv = IdleRcvAt(TRUE, FALSE)
    /\ mgr = FALSE
    /\ fut = [s \in Senders |-> NoFut]
    /\ task = [w \in 1 .. RecvId |-> [parked |-> FALSE, nwake |-> 0]]
    /\ nsent = SMALL_CAP
    /\ accepted = 1 .. SMALL_CAP
    /\ received = <<>>
    /\ ret = NoRet
    /\ overlaps = 0

InitFull == FullChannel /\ NewScheduler

----------------------------------------------------------------------------
(* Scheduling of calls: which threads are inside a call, and the ghost      *)
(* `clean` flag of a call that no other thread's step has overlapped.       *)

Busy(t) == IF t \in Senders THEN snd[t].pc # "idle"
           ELSE IF t = RecvId THEN rcv.pc # "idle" ELSE FALSE
OthersBusy(t) == \E u \in 1 .. RecvId : u # t /\ Busy(u)
\* Thread t may start a call: at most `mo` calls start during another call.
CanStart(t, mo) == ~freed /\ ~Busy(t) /\ (OthersBusy(t) => overlaps < mo)
Started(t) == IF OthersBusy(t) THEN overlaps + 1 ELSE overlaps
Touch(r) == IF r.pc # "idle" THEN [r EXCEPT !.clean = FALSE] ELSE r
\* Every step of a channel operation is a SenderStep or a ReceiverStep; the
\* scheduler and the task wakers are left alone by both.
SenderStep(s, r) ==
    /\ snd' = [u \in Senders |-> IF u = s THEN r ELSE Touch(snd[u])]
    /\ rcv' = Touch(rcv)
    /\ UNCHANGED notInboxVars
ReceiverStep(r) ==
    /\ snd' = [u \in Senders |-> Touch(snd[u])]
    /\ rcv' = r
    /\ UNCHANGED notInboxVars
\* task::Waker::wake of waker w (0: there was no waker).
Woken(tk, w) == IF w = 0 THEN tk
                ELSE [tk EXCEPT ![w].nwake = IF @ < 2 THEN @ + 1 ELSE 2]
\* A value that was not accepted is handed out again if it was the last one.
GiveBack(v) == IF v = nsent THEN nsent - 1 ELSE nsent

----------------------------------------------------------------------------
(* Pending-sender waker list (Channel::add_waker / next_waker /            *)
(* remove_waker), each run without interruption.                           *)

\* add_waker: follow the `next` links from the head to the first null link
\* and put `node` there. Gives the new <<head, nodes>>.
RECURSIVE AppendAfter(_, _, _)
AppendAfter(nd, at, node) ==
    IF nd[at].next = 0 THEN [nd EXCEPT ![at].next = node]
    ELSE AppendAfter(nd, nd[at].next, node)

add_waker(head, nd, node) ==
    IF head = 0 THEN <<node, nd>> ELSE <<head, AppendAfter(nd, head, node)>>

\* next_waker gone wrong: the list is emptied and no waker is handed out.
next_waker_none(head, nd) == <<0, nd, 0>>

\* next_waker: pop the head node, take its waker, clear its `next`; go on to
\* the next node when the waker was None. Gives <<head, nodes, waker>>.
RECURSIVE next_waker(_, _)
next_waker(head, nd) ==
    IF head = 0 THEN <<0, nd, 0>>
    ELSE LET next_ptr == nd[head].next
             waker == nd[head].waker
             popped == [nd EXCEPT ![head] = NoNode]
         IN  IF waker = 0 THEN next_waker(next_ptr, popped)
             ELSE <<next_ptr, popped, waker>>

\* remove_waker: unlink `node` if it is reachable from the head.
RECURSIVE UnlinkAfter(_, _, _)
UnlinkAfter(nd, parent, node) ==
    IF nd[parent].next = 0 THEN nd
    ELSE IF nd[parent].next = node THEN [nd EXCEPT ![parent].next = nd[node].next]
    ELSE UnlinkAfter(nd, nd[parent].next, node)

remove_waker(head, nd, node) ==
    IF head = 0 THEN <<head, nd>>
    ELSE IF head = node THEN <<nd[node].next, nd>>
    ELSE <<head, UnlinkAfter(nd, head, node)>>

\* The nodes reachable from the head (at most `fuel` links are followed).
RECURSIVE Reachable(_, _, _)
Reachable(head, nd, fuel) ==
    IF head = 0 \/ fuel = 0 THEN {}
    ELSE {head} \cup Reachable(nd[head].next, nd, fuel - 1)

Linked(s) == s \in Reachable(sender_waker_head, nodes, NumSenders)

----------------------------------------------------------------------------
(* Sender::try_send, SendValue::poll, Drop for Sender.                     *)

\* A try_send of sender `s` (record r) returns `kind`: to the caller of a
\* plain try_send, or into SendValue::poll (lines 465-489). `tk` is the task
\* state after the wake-ups of this step.
SendReturn(s, r, kind, tk) ==
    IF r.op = "try_send"
    THEN /\ SenderStep(s, IdleSnd(TRUE))
         /\ fut' = fut
         /\ task' = tk
         /\ nsent' = IF kind = "Ok" THEN nsent ELSE GiveBack(r.value)
         /\ ret' = Returned(s, "try_send", kind, r.value, r.clean)
    ELSE IF kind = "Full" /\ r.op = "poll1"
    THEN /\ SenderStep(s, [r EXCEPT !.pc = "register"])
         /\ fut' = fut
         /\ task' = tk
         /\ nsent' = nsent
         /\ ret' = NoRet
    ELSE LET out == IF kind = "Ok" THEN "ReadyOk"
                    ELSE IF kind = "Full" THEN "Pending" ELSE "ReadyErr"
         IN  /\ SenderStep(s, IdleSnd(TRUE))
             /\ fut' = [fut EXCEPT ![s].st = IF out = "Pending" THEN "pending" ELSE "ready",
                                   ![s].value = IF out = "Pending" THEN @ ELSE 0]
             /\ task' = [tk EXCEPT ![s].parked = (out = "Pending")]
             /\ nsent' = IF out = "ReadyErr" THEN GiveBack(r.value) ELSE nsent
             /\ ret' = Returned(s, "send_poll", out, r.value, r.clean)

\* The try_send goes on with its next step.
SendGoesOn(s, r) ==
    /\ SenderStep(s, r)
    /\ ret' = NoRet
    /\ UNCHANGED <<fut, task, nsent>>

\* Lines 205-207: the connectivity check that opens try_send.
TrySendConnected(s, r, tk) ==
    IF ~SenderIsConnected(ref_count)
    THEN SendReturn(s, r, "Disconnected", tk)
    ELSE /\ SenderStep(s, [r EXCEPT !.pc = "load"])
         /\ ret' = NoRet
         /\ task' = tk
         /\ UNCHANGED <<fut, nsent>>

\* Sender::try_send(value), first step.
TrySend(s, mo, ms) ==
    /\ CanStart(s, mo) /\ snd[s].h /\ fut[s].st = "none" /\ nsent < ms
    /\ overlaps' = Started(s)
    /\ IF ~SenderIsConnected(ref_count)
       THEN /\ SenderStep(s, IdleSnd(TRUE))
            /\ nsent' = nsent
            /\ ret' = Returned(s, "try_send", "Disconnected", nsent + 1, ~OthersBusy(s))
       ELSE /\ SenderStep(s, [snd[s] EXCEPT !.op = "try_send", !.value = nsent + 1,
                                           !.clean = ~OthersBusy(s), !.pc = "load"])
            /\ nsent' = nsent + 1
            /\ ret' = NoRet
    /\ UNCHANGED <<chanVars, mgr, fut, task, accepted, received>>

\* Sender::send(value) and SendValue::poll, first step (the first try_send).
SendPoll(s, mo, ms) ==
    /\ CanStart(s, mo) /\ snd[s].h
    /\ fut[s].st \in {"none", "pending"}
    /\ fut[s].st = "none" => nsent < ms
    /\ LET fresh == fut[s].st = "none"
           value == IF fresh THEN nsent + 1 ELSE fut[s].value
           tk == [task EXCEPT ![s] = [parked |-> FALSE, nwake |-> 0]]
       IN  /\ task' = tk
           /\ IF ~SenderIsConnected(ref_count)
              THEN /\ SenderStep(s, IdleSnd(TRUE))
                   /\ fut' = [fut EXCEPT ![s].st = "ready", ![s].value = 0]
                   /\ nsent' = IF fresh THEN nsent ELSE GiveBack(value)
                   /\ ret' = Returned(s, "send_poll", "ReadyErr", value, ~OthersBusy(s))
              ELSE /\ SenderStep(s, [snd[s] EXCEPT !.op = "poll1", !.value = value,
                                                  !.clean = ~OthersBusy(s), !.pc = "load"])
                   /\ fut' = [fut EXCEPT ![s].st = "pending", ![s].value = value]
                   /\ nsent' = IF fresh THEN nsent + 1 ELSE nsent
                   /\ ret' = NoRet
    /\ overlaps' = Started(s)
    /\ UNCHANGED <<chanVars, mgr, accepted, received>>

\* Lines 213-216: load the status, start scanning at the receiver position.
TsLoad(s) ==
    /\ snd[s].pc = "load"
    /\ LET start == receiver_pos(status)
           k == NextAvailable(status, start, 0)
           r == [snd[s] EXCEPT !.status = status, !.start = start, !.k = k]
       IN  SendGoesOn(s, [r EXCEPT !.pc = IF k = SMALL_CAP THEN "full" ELSE "take"])
    /\ UNCHANGED <<chanVars, mgr, accepted, received, overlaps>>

\* Lines 233-239: fetch_or(MARK_TAKEN) on the slot the local status shows
\* available; the previous status decides whether the slot was acquired.
TsTake(s) ==
    /\ snd[s].pc = "take"
    /\ LET slot == ScanSlot(snd[s].start, snd[s].k)
           old == status
           k == NextAvailable(old, snd[s].start, snd[s].k + 1)
           r == [snd[s] EXCEPT !.status = old]
       IN  /\ status' = BitOr(status, mark_slot(slot, MARK_TAKEN))
           /\ IF is_available(old, slot)
              THEN SendGoesOn(s, [r EXCEPT !.pc = "fill"])
              ELSE SendGoesOn(s, [r EXCEPT !.k = k,
                                           !.pc = IF k = SMALL_CAP THEN "full" ELSE "take"])
    /\ UNCHANGED <<slots, ref_count, sender_waker_head, nodes, receiver_waker,
                   receiver_needs_wakeup, freed, mgr, accepted, received, overlaps>>

\* Line 262: the loop ran out of slots, Err(SendError::Full(value)).
TsFull(s) ==
    /\ snd[s].pc = "full"
    /\ SendReturn(s, snd[s], "Full", task)
    /\ UNCHANGED <<chanVars, mgr, accepted, received, overlaps>>

\* Lines 243-259: write the value into the acquired slot (a write only the
\* owner of the slot can see), then fetch_or(MARK_FILLED); wake the receiver
\* if its position is this slot.
TsFill(s) ==
    /\ snd[s].pc = "fill"
    /\ LET slot == ScanSlot(snd[s].start, snd[s].k)
           old_status == status
       IN  /\ slots' = [slots EXCEPT ![slot] = snd[s].value]
           /\ status' = BitOr(status, mark_slot(slot, MARK_FILLED))
           /\ IF receiver_pos(old_status) = slot
              THEN SendGoesOn(s, [snd[s] EXCEPT !.pc = "wake_load"])
              ELSE SendReturn(s, snd[s], "Ok", task)
    /\ accepted' = accepted \cup {snd[s].value}
    /\ UNCHANGED <<ref_count, sender_waker_head, nodes, receiver_waker,
                   receiver_needs_wakeup, freed, mgr, received, overlaps>>

\* After Channel::wake_receiver: try_send returns Ok, Drop goes on to fetch_sub.
AfterWake(s, tk) ==
    IF snd[s].op = "drop"
    THEN /\ SenderStep(s, [snd[s] EXCEPT !.pc = "sub"])
         /\ task' = tk
         /\ ret' = NoRet
         /\ UNCHANGED <<fut, nsent>>
    ELSE SendReturn(s, snd[s], "Ok", tk)

\* Channel::wake_receiver, lines 965-968: load receiver_needs_wakeup.
WakeLoad(s) ==
    /\ snd[s].pc = "wake_load"
    /\ IF ~receiver_needs_wakeup
       THEN AfterWake(s, task)
       ELSE SendGoesOn(s, [snd[s] EXCEPT !.pc = "wake_swap"])
    /\ UNCHANGED <<chanVars, mgr, accepted, received, overlaps>>

\* Channel::wake_receiver, lines 972-976: swap(false), and wake the stored
\* receiver waker if the flag was set.
WakeSwap(s) ==
    /\ snd[s].pc = "wake_swap"
    /\ receiver_needs_wakeup' = FALSE
    /\ AfterWake(s, IF receiver_needs_wakeup THEN Woken(task, receiver_waker) ELSE task)
    /\ UNCHANGED <<status, slots, ref_count, sender_waker_head, nodes, receiver_waker,
                   freed, mgr, accepted, received, overlaps>>

\* SendValue::register_waker (lines 420-448), with the task's own waker.
RegisterWaker(s) ==
    /\ snd[s].pc = "register"
    /\ IF fut[s].has_node
       THEN \* already registered: only the waker in the node is replaced
            /\ nodes' = [nodes EXCEPT ![s].waker = s]
            /\ UNCHANGED <<sender_waker_head, fut>>
       ELSE LET added == add_waker(sender_waker_head,
                                   [nodes EXCEPT ![s] = [waker |-> s, next |-> 0]], s)
            IN  /\ sender_waker_head' = added[1]
                /\ nodes' = added[2]
                /\ fut' = [fut EXCEPT ![s].has_node = TRUE]
    /\ SenderStep(s, [snd[s] EXCEPT !.pc = "retry", !.op = "poll2"])
    /\ ret' = NoRet
    /\ UNCHANGED <<status, slots, ref_count, receiver_waker, receiver_needs_wakeup,
                   freed, mgr, task, nsent, accepted, received, overlaps>>

\* Line 478: the second try_send of SendValue::poll, its connectivity check.
TsRetry(s) ==
    /\ snd[s].pc = "retry"
    /\ TrySendConnected(s, snd[s], task)
    /\ UNCHANGED <<chanVars, mgr, accepted, received, overlaps>>

\* Drop for SendValue (lines 493-508).
DropSendValue(s, mo) ==
    /\ CanStart(s, mo) /\ snd[s].h /\ fut[s].st # "none"
    /\ IF fut[s].has_node
       THEN LET removed == remove_waker(sender_waker_head,
                                        [nodes EXCEPT ![s].waker = 0], s)
            IN  /\ sender_waker_head' = removed[1]
                /\ nodes' = [removed[2] EXCEPT ![s] = NoNode]
       ELSE UNCHANGED <<sender_waker_head, nodes>>
    /\ fut' = [fut EXCEPT ![s] = NoFut]
    /\ task' = [task EXCEPT ![s].parked = FALSE]
    /\ nsent' = IF fut[s].st = "pending" THEN GiveBack(fut[s].value) ELSE nsent
    /\ SenderStep(s, snd[s])
    /\ overlaps' = Started(s)
    /\ ret' = NoRet
    /\ UNCHANGED <<status, slots, ref_count, receiver_waker, receiver_needs_wakeup,
                   freed, mgr, accepted, received>>

\* Sender::clone (lines 336-342): sender s2 comes to exist.
SenderClone(s, s2, mo) ==
    /\ CanStart(s, mo) /\ snd[s].h /\ ~snd[s2].h
    /\ ref_count' = WrappingAdd(ref_count, 1)
    /\ SenderStep(s2, IdleSnd(TRUE))
    /\ overlaps' = Started(s)
    /\ ret' = NoRet
    /\ UNCHANGED <<status, slots, sender_waker_head, nodes, receiver_waker,
                   receiver_needs_wakeup, freed, mgr, fut, task, nsent, accepted, received>>

\* Drop for Sender, lines 376-378: wake the receiver if this is the only sender.
DropSender(s, mo) ==
    /\ CanStart(s, mo) /\ snd[s].h /\ fut[s].st = "none"
    /\ SenderStep(s, [snd[s] EXCEPT !.op = "drop", !.clean = ~OthersBusy(s),
                         !.pc = IF only_sender(ref_count) THEN "wake_load" ELSE "sub"])
    /\ overlaps' = Started(s)
    /\ ret' = NoRet
    /\ UNCHANGED <<chanVars, mgr, fut, task, nsent, accepted, received>>

\* Drop for Sender, lines 385-393: fetch_sub(1); free the channel if the
\* previous count was 1.
DropSenderSub(s) ==
    /\ snd[s].pc = "sub"
    /\ ref_count' = WrappingSub(ref_count, 1)
    /\ freed' = (ref_count = 1)
    /\ SenderStep(s, IdleSnd(FALSE))
    /\ ret' = Returned(s, "drop_sender", "done", 0, snd[s].clean)
    /\ UNCHANGED <<status, slots, sender_waker_head, nodes, receiver_waker,
                   receiver_needs_wakeup, mgr, fut, task, nsent, accepted, received,
                   overlaps>>

----------------------------------------------------------------------------
(* Receiver::try_recv, RecvValue::poll, Drop for Receiver.                 *)

\* A try_recv (record r) returns `kind`: to the caller of a plain try_recv,
\* or into RecvValue::poll (lines 735-755).
RecvReturn(r, kind, tk) ==
    IF r.op = "try_recv"
    THEN /\ ReceiverStep(IdleRcv(TRUE))
         /\ task' = tk
         /\ ret' = Returned(RecvId, "try_recv", kind, r.value, r.clean)
    ELSE IF kind = "Empty" /\ r.op = "poll1"
    THEN /\ ReceiverStep([r EXCEPT !.pc = "set_waker"])
         /\ task' = tk
         /\ ret' = NoRet
    ELSE LET out == IF kind = "Ok" THEN "ReadySome"
                    ELSE IF kind = "Empty" THEN "Pending" ELSE "ReadyNone"
         IN  /\ ReceiverStep(IdleRcv(TRUE))
             /\ task' = [tk EXCEPT ![RecvId].parked = (out = "Pending")]
             /\ ret' = Returned(RecvId, "recv_poll", out, r.value, r.clean)

\* The try_recv goes on with its next step.
RecvGoesOn(r) ==
    /\ ReceiverStep(r)
    /\ ret' = NoRet
    /\ task' = task

\* The result gone wrong: is_connected is not looked at.
NothingFoundEmpty(r) == "Empty"

\* Result of a try_recv whose scan found nothing (lines 602-606).
NothingFound(r) == IF ~r.conn THEN "Disconnected" ELSE "Empty"

\* Receiver::try_recv, line 556: is_connected, read before the scan.
TryRecv(mo) ==
    /\ CanStart(RecvId, mo) /\ rcv.h
    /\ RecvGoesOn([rcv EXCEPT !.op = "try_recv", !.pc = "add",
                              !.conn = ReceiverIsConnected(ref_count),
                              !.clean = ~OthersBusy(RecvId)])
    /\ overlaps' = Started(RecvId)
    /\ UNCHANGED <<chanVars, mgr, fut, nsent, accepted, received>>

\* Receiver::recv and RecvValue::poll, first step (the first try_recv).
RecvPoll(mo) ==
    /\ CanStart(RecvId, mo) /\ rcv.h
    /\ ReceiverStep([rcv EXCEPT !.op = "poll1", !.pc = "add",
                                !.conn = ReceiverIsConnected(ref_count),
                                !.clean = ~OthersBusy(RecvId)])
    /\ task' = [task EXCEPT ![RecvId] = [parked |-> FALSE, nwake |-> 0]]
    /\ overlaps' = Started(RecvId)
    /\ ret' = NoRet
    /\ UNCHANGED <<chanVars, mgr, fut, nsent, accepted, received>>

\* Lines 562-567: fetch_add(MARK_NEXT_POS); scan from the previous position.
TrAdd ==
    /\ rcv.pc = "add"
    /\ LET old == status
           start == receiver_pos(old)
           k == NextFilled(old, start, 0)
           r == [rcv EXCEPT !.status = old, !.start = start, !.k = k]
       IN  /\ status' = WrappingAdd(status, MARK_NEXT_POS)
           /\ IF k = SMALL_CAP
              THEN RecvReturn(r, NothingFound(r), task)
              ELSE RecvGoesOn([r EXCEPT !.pc = "xor"])
    /\ UNCHANGED <<slots, ref_count, sender_waker_head, nodes, receiver_waker,
                   receiver_needs_wakeup, freed, mgr, fut, nsent, accepted, received,
                   overlaps>>

\* Lines 570-576: fetch_xor(MARK_READING) on the slot the local status shows
\* filled; the previous status decides whether the slot is owned.
TrXor ==
    /\ rcv.pc = "xor"
    /\ LET slot == ScanSlot(rcv.start, rcv.k)
           old == status
           k == NextFilled(old, rcv.start, rcv.k + 1)
           r == [rcv EXCEPT !.status = old]
       IN  /\ status' = BitXor(status, mark_slot(slot, MARK_READING))
           /\ IF is_filled(old, slot)
              THEN RecvGoesOn([r EXCEPT !.pc = "read"])
              ELSE IF k = SMALL_CAP
              THEN RecvReturn(r, NothingFound(r), task)
              ELSE RecvGoesOn([r EXCEPT !.k = k])
    /\ UNCHANGED <<slots, ref_count, sender_waker_head, nodes, receiver_waker,
                   receiver_needs_wakeup, freed, mgr, fut, nsent, accepted, received,
                   overlaps>>

\* Lines 580-585: move the value out of the owned slot (assume_init_read, a
\* read only the owner of the slot can see: the cell is uninitialised again),
\* then fetch_and(!MARK_EMPTIED).
TrRead ==
    /\ rcv.pc = "read"
    /\ LET slot == ScanSlot(rcv.start, rcv.k)
       IN  /\ slots' = [slots EXCEPT ![slot] = 0]
           /\ status' = BitAnd(status, BitNot(mark_slot(slot, MARK_EMPTIED)))
           /\ RecvGoesOn([rcv EXCEPT !.pc = "next_waker", !.value = slots[slot]])
    /\ UNCHANGED <<ref_count, sender_waker_head, nodes, receiver_waker,
                   receiver_needs_wakeup, freed, mgr, fut, nsent, accepted, received,
                   overlaps>>

\* Lines 595-599: wake the next pending sender, return Ok(value).
TrNextWaker ==
    /\ rcv.pc = "next_waker"
    /\ LET popped == next_waker(sender_waker_head, nodes)
       IN  /\ sender_waker_head' = popped[1]
           /\ nodes' = popped[2]
           /\ RecvReturn(rcv, "Ok", Woken(task, popped[3]))
    /\ received' = Append(received, rcv.value)
    /\ UNCHANGED <<status, slots, ref_count, receiver_waker, receiver_needs_wakeup,
                   freed, mgr, fut, nsent, accepted, overlaps>>

\* Receiver::set_waker, lines 669-680: keep the stored waker if it would
\* wake the same task (returning false, the poll is Pending), else store it.
SetWaker ==
    /\ rcv.pc = "set_waker"
    /\ IF receiver_waker = RecvId
       THEN /\ RecvReturn([rcv EXCEPT !.op = "poll2"], "Empty", task)
            /\ UNCHANGED receiver_waker
       ELSE /\ receiver_waker' = RecvId
            /\ RecvGoesOn([rcv EXCEPT !.pc = "set_flag"])
    /\ UNCHANGED <<status, slots, ref_count, sender_waker_head, nodes,
                   receiver_needs_wakeup, freed, mgr, fut, nsent, accepted, received,
                   overlaps>>

\* Receiver::set_waker, line 682: receiver_needs_wakeup.store(true).
SetFlag ==
    /\ rcv.pc = "set_flag"
    /\ receiver_needs_wakeup' = TRUE
    /\ RecvGoesOn([rcv EXCEPT !.pc = "retry", !.op = "poll2"])
    /\ UNCHANGED <<status, slots, ref_count, sender_waker_head, nodes, receiver_waker,
                   freed, mgr, fut, nsent, accepted, received, overlaps>>

\* Line 747: the second try_recv of RecvValue::poll, its is_connected.
TrRetry ==
    /\ rcv.pc = "retry"
    /\ RecvGoesOn([rcv EXCEPT !.pc = "add", !.conn = ReceiverIsConnected(ref_count)])
    /\ UNCHANGED <<chanVars, mgr, fut, nsent, accepted, received, overlaps>>

\* Receiver::new_sender (lines 630-636).
ReceiverNewSender(s2, mo) ==
    /\ CanStart(RecvId, mo) /\ rcv.h /\ ~snd[s2].h
    /\ ref_count' = WrappingAdd(ref_count, 1)
    /\ SenderStep(s2, IdleSnd(TRUE))
    /\ overlaps' = Started(RecvId)
    /\ ret' = NoRet
    /\ UNCHANGED <<status, slots, sender_waker_head, nodes, receiver_waker,
                   receiver_needs_wakeup, freed, mgr, fut, task, nsent, accepted, received>>

\* Drop for Receiver (lines 706-723).
DropReceiver(mo) ==
    /\ CanStart(RecvId, mo) /\ rcv.h
    /\ ref_count' = BitAnd(ref_count, BitNot(RECEIVER_ALIVE))
    /\ freed' = (ref_count = RECEIVER_ALIVE)
    /\ ReceiverStep(IdleRcv(FALSE))
    /\ task' = [task EXCEPT ![RecvId].parked = FALSE]
    /\ overlaps' = Started(RecvId)
    /\ ret' = Returned(RecvId, "drop_receiver", "done", 0, ~OthersBusy(RecvId))
    /\ UNCHANGED <<status, slots, sender_waker_head, nodes, receiver_waker,
                   receiver_needs_wakeup, mgr, fut, nsent, accepted, received>>

----------------------------------------------------------------------------
(* Manager.                                                                *)

\* Manager::new_sender (lines 1071-1077).
ManagerNewSender(s2, mo) ==
    /\ CanStart(MgrId, mo) /\ mgr /\ ~snd[s2].h
    /\ ref_count' = WrappingAdd(ref_count, 1)
    /\ SenderStep(s2, IdleSnd(TRUE))
    /\ overlaps' = Started(MgrId)
    /\ ret' = NoRet
    /\ UNCHANGED <<status, slots, sender_waker_head, nodes, receiver_waker,
                   receiver_needs_wakeup, freed, mgr, fut, task, nsent, accepted, received>>

\* The test of new_receiver gone wrong: the Manager's bit is looked at.
NoReceiverManagerBit(old_count) == BitAnd(old_count, MANAGER_ALIVE) = 0

\* Manager::new_receiver, line 1087: no Receiver was connected.
NoReceiver(old_count) == BitAnd(old_count, RECEIVER_ALIVE) = 0

\* Manager::new_receiver (lines 1082-1095).
ManagerNewReceiver(mo) ==
    /\ CanStart(MgrId, mo) /\ mgr
    /\ ref_count' = BitOr(ref_count, RECEIVER_ALIVE)
    /\ IF NoReceiver(ref_count)
       THEN /\ ReceiverStep(IdleRcvAt(TRUE, TRUE))
            /\ ret' = Returned(MgrId, "new_receiver", "Ok", 0, ~OthersBusy(MgrId))
       ELSE /\ ReceiverStep(Touch(rcv))
            /\ ret' = Returned(MgrId, "new_receiver", "ReceiverConnected", 0,
                               ~OthersBusy(MgrId))
    /\ overlaps' = Started(MgrId)
    /\ UNCHANGED <<status, slots, sender_waker_head, nodes, receiver_waker,
                   receiver_needs_wakeup, freed, mgr, fut, task, nsent, accepted, received>>

\* Drop for Manager (lines 1117-1134).
DropManager(mo) ==
    /\ CanStart(MgrId, mo) /\ mgr
    /\ ref_count' = BitAnd(ref_count, BitNot(MANAGER_ALIVE))
    /\ freed' = (ref_count = MANAGER_ALIVE)
    /\ mgr' = FALSE
    /\ ReceiverStep(Touch(rcv))
    /\ overlaps' = Started(MgrId)
    /\ ret' = Returned(MgrId, "drop_manager", "done", 0, ~OthersBusy(MgrId))
    /\ UNCHANGED <<status, slots, sender_waker_head, nodes, receiver_waker,
                   receiver_needs_wakeup, fut, task, nsent, accepted, received>>

----------------------------------------------------------------------------
(* The steps inside try_send / Drop for Sender and inside try_recv.        *)

SendSteps(s) ==
    \/ TsLoad(s) \/ TsTake(s) \/ TsFull(s) \/ TsFill(s) \/ WakeLoad(s)

RecvSteps == TrAdd \/ TrXor \/ TrRead \/ TrNextWaker

----------------------------------------------------------------------------
(* Specification SpecSeq: try_send, try_recv and every handle operation,   *)
(* the calls running one after the other (a call starts only when no other *)
(* call is in progress).                                                   *)

NextSeq ==
    \/ \E s \in Senders :
        \/ TrySend(s, 0, MaxSends) \/ SendSteps(s)
        \/ DropSender(s, 0) \/ DropSenderSub(s)
        \/ ReceiverNewSender(s, 0) \/ ManagerNewSender(s, 0)
        \/ \E s2 \in Senders : SenderClone(s, s2, 0)
    \/ TryRecv(0) \/ RecvSteps
    \/ DropReceiver(0) \/ ManagerNewReceiver(0) \/ DropManager(0)

SpecSeq == Init /\ [][NextSeq]_vars

----------------------------------------------------------------------------
(* Specification SpecFut: the SendValue and RecvValue futures next to      *)
(* try_send and try_recv on a channel made by new_small(), the calls       *)
(* running one after the other.                                            *)

NextFut ==
    \/ \E s \in Senders :
        \/ TrySend(s, 0, MaxFutSends) \/ SendPoll(s, 0, MaxFutSends) \/ SendSteps(s)
        \/ WakeSwap(s) \/ RegisterWaker(s) \/ TsRetry(s) \/ DropSendValue(s, 0)
        \/ \E s2 \in Senders : SenderClone(s, s2, 0)
    \/ TryRecv(0) \/ RecvPoll(0) \/ RecvSteps
    \/ SetWaker \/ SetFlag \/ TrRetry
    \/ DropReceiver(0)

SpecFut == InitSmall /\ [][NextFut]_vars

----------------------------------------------------------------------------
(* Specification SpecRace: try_send, try_recv, Sender clone and drop on a   *)
(* channel made by new_small(), with up to MaxOverlap calls started while   *)
(* another call is in progress.                                            *)

NextRace ==
    \/ \E s \in Senders :
        \/ TrySend(s, MaxOverlap, MaxRaceSends) \/ SendSteps(s)
        \/ DropSender(s, MaxOverlap) \/ DropSenderSub(s)
        \/ \E s2 \in Senders : SenderClone(s, s2, MaxOverlap)
    \/ TryRecv(MaxOverlap) \/ RecvSteps

SpecRace == InitSmall /\ [][NextRace]_vars

----------------------------------------------------------------------------
(* Specification SpecSpsc: the one Sender and the Receiver of new_small(),  *)
(* try_send and try_recv only, with up to MaxOverlap calls started while    *)
(* the other side's call is in progress.                                    *)

NextSpsc ==
    \/ \E s \in Senders : TrySend(s, MaxOverlap, MaxRaceSends) \/ SendSteps(s)
    \/ TryRecv(MaxOverlap) \/ RecvSteps

SpecSpsc == InitSmall /\ [][NextSpsc]_vars

----------------------------------------------------------------------------
(* Specification SpecSlot: try_send on the Senders of a full channel and   *)
(* try_recv, with up to MaxSlotOverlap calls started while another call is  *)
(* in progress, so that two try_send calls and a try_recv are in progress   *)
(* together.                                                                *)

NextSlot ==
    \/ \E s \in Senders : TrySend(s, MaxSlotOverlap, MaxSlotSends) \/ SendSteps(s)
    \/ TryRecv(MaxSlotOverlap) \/ RecvSteps

SpecSlot == InitFull /\ [][NextSlot]_vars

----------------------------------------------------------------------------
(* Specification SpecDrop: the RecvValue future next to try_send, try_recv, *)
(* Sender clone and Sender drop on a channel made by new_small(), the calls *)
(* running one after the other.                                             *)

NextDrop ==
    \/ \E s \in Senders :
        \/ TrySend(s, 0, MaxSends) \/ SendSteps(s) \/ WakeSwap(s)
        \/ DropSender(s, 0) \/ DropSenderSub(s)
        \/ \E s2 \in Senders : SenderClone(s, s2, 0)
    \/ TryRecv(0) \/ RecvPoll(0) \/ RecvSteps
    \/ SetWaker \/ SetFlag \/ TrRetry

SpecDrop == InitSmall /\ [][NextDrop]_vars

----------------------------------------------------------------------------
(* Specification SpecRestart: a channel made by Manager::new_small_channel  *)
(* whose Receiver is dropped and replaced through the Manager: values are   *)
(* sent while the first Receiver is alive or while there is no Receiver,    *)
(* and only a Receiver made by Manager::new_receiver receives.              *)

NextRestart ==
    \/ \E s \in Senders : (~rcv.by_manager /\ TrySend(s, 0, MaxSends)) \/ SendSteps(s)
    \/ (rcv.by_manager /\ TryRecv(0)) \/ RecvSteps
    \/ DropReceiver(0) \/ ManagerNewReceiver(0)

SpecRestart == InitManaged /\ [][NextRestart]_vars

----------------------------------------------------------------------------
(* Specification SpecPark: send futures polled, polled again and dropped on *)
(* a full channel while try_recv calls take values out, with up to          *)
(* MaxParkOverlap calls started while another call is in progress.          *)

NextPark ==
    \/ \E s \in Senders :
        \/ SendPoll(s, MaxParkOverlap, MaxParkSends) \/ SendSteps(s)
        \/ RegisterWaker(s) \/ TsRetry(s) \/ DropSendValue(s, MaxParkOverlap)
    \/ TryRecv(MaxParkOverlap) \/ RecvSteps

SpecPark == InitFull /\ [][NextPark]_vars

----------------------------------------------------------------------------
(* Specification SpecHangUp: Senders cloned and dropped while the RecvValue *)
(* future is polled on the empty channel made by new_small(), with up to    *)
(* MaxOverlap calls started while another call is in progress.              *)

NextHangUp ==
    \/ \E s \in Senders :
        \/ DropSender(s, MaxOverlap) \/ WakeLoad(s) \/ WakeSwap(s)
        \/ DropSenderSub(s)
        \/ \E s2 \in Senders : SenderClone(s, s2, MaxOverlap)
    \/ RecvPoll(MaxOverlap) \/ TrAdd \/ SetWaker \/ SetFlag \/ TrRetry

SpecHangUp == InitSmall /\ [][NextHangUp]_vars

----------------------------------------------------------------------------
(* Specification SpecRef: the handle operations that change the reference   *)
(* count, with up to MaxOverlap of them started while a Sender's drop is in *)
(* progress.                                                                *)

NextRef ==
    \/ \E s \in Senders :
        \/ DropSender(s, MaxOverlap) \/ WakeLoad(s) \/ DropSenderSub(s)
        \/ ReceiverNewSender(s, MaxOverlap) \/ ManagerNewSender(s, MaxOverlap)
        \/ \E s2 \in Senders : SenderClone(s, s2, MaxOverlap)
    \/ DropReceiver(MaxOverlap) \/ ManagerNewReceiver(MaxOverlap) \/ DropManager(MaxOverlap)

SpecRef == Init /\ [][NextRef]_vars

----------------------------------------------------------------------------
(* The process scheduler (the contract both Scheduler variants share, as    *)
(* src/rt/src/scheduler/tests.rs and src/rt/src/shared/mod.rs use it): the  *)
(* READY processes, the INACTIVE processes, and the processes a caller of   *)
(* next_process holds until it hands them to add_back_process or complete.  *)

Pids == 1 .. MaxPids
Priorities == {"LOW", "NORMAL", "HIGH"}
\* Priority::LOW / NORMAL / HIGH as the weight of a unit of runtime.
LOW_MULTIPLIER == 3
NORMAL_MULTIPLIER == 2
HIGH_MULTIPLIER == 1
priority_multiplier(priority) ==
    IF priority = "LOW" THEN LOW_MULTIPLIER
    ELSE IF priority = "NORMAL" THEN NORMAL_MULTIPLIER ELSE HIGH_MULTIPLIER

\* ProcessData of a new process, in a Box at `addr`; polled_at is the
\* address the process was at when it was first polled (0: not polled).
NewProcess(pid, priority, addr) ==
    [id |-> pid, priority |-> priority, runtime |-> 0, addr |-> addr, polled_at |-> 0]
\* next_process returned None.
NoProcess == [id |-> 0, priority |-> "NONE", runtime |-> 0, addr |-> 0, polled_at |-> 0]
Addrs == 1 .. MaxAddrs

\* The move goes wrong: the process is copied to the next address.
move_box_copies(p) == [p EXCEPT !.addr = (p.addr % MaxAddrs) + 1]

\* Moving a Pin<Box<ProcessData>> into or out of the scheduler: the Box is
\* moved, the process stays where it is.
move_box(p) == p

weighted_runtime(p) == p.runtime * priority_multiplier(p.priority)

\* Priority goes wrong: the lower priority wins.
higher_priority_reversed(a, b) ==
    priority_multiplier(a.priority) > priority_multiplier(b.priority)

\* a's priority is higher than b's.
higher_priority(a, b) ==
    priority_multiplier(a.priority) < priority_multiplier(b.priority)

\* The ordering goes wrong: equal weighted runtimes are decided by the id
\* alone.
scheduled_before_by_id(a, b) ==
    \/ weighted_runtime(a) < weighted_runtime(b)
    \/ weighted_runtime(a) = weighted_runtime(b) /\ a.id < b.id

\* The ordering of ProcessData: a is scheduled before b. The smaller
\* weighted runtime goes first; of two processes that have not run (equal
\* weighted runtime) the one with the higher priority goes first; the id
\* decides between processes equal in both.
scheduled_before(a, b) ==
    \/ weighted_runtime(a) < weighted_runtime(b)
    \/ /\ weighted_runtime(a) = weighted_runtime(b)
       /\ \/ higher_priority(a, b)
          \/ a.priority = b.priority /\ a.id < b.id

RemoveAt(q, i) == SubSeq(q, 1, i - 1) \o SubSeq(q, i + 1, Len(q))
IdsOf(q) == {q[i].id : i \in DOMAIN q}

\* The places of the ready queue no other entry is scheduled before.
Smallest(q) ==
    {i \in DOMAIN q : \A j \in DOMAIN q : j # i => ~scheduled_before(q[j], q[i])}

has_process == ready # <<>> \/ inactive # {}

\* has_ready_process goes wrong: INACTIVE processes count as READY.
has_ready_process_or_inactive == ready # <<>> \/ inactive # {}

has_ready_process == ready # <<>>

\* The inactive set goes wrong: the process marked ready stays in it.
remove_inactive_keeps(set, pid) == set

\* The inactive set without the process `pid`.
remove_inactive(set, pid) == {p \in set : p.id # pid}

\* No waker was woken since the last call of the scheduler.
NoWoke == [slot |-> 0, pid |-> 0, orphan |-> FALSE, found |-> FALSE]
\* A call of a scheduler operation other than next_process.
SchedulerCalled == woke' = NoWoke /\ UNCHANGED <<inboxVars, wakers, workerVars, actorVars, listVars>>

\* add_new_process(priority, ..): the process gets an id no stored or held
\* process has and is stored as READY, at the tail.
add_new_process(priority, pid, addr) ==
    /\ pid \notin IdsOf(ready) \cup {p.id : p \in inactive} \cup IdsOf(running)
    /\ addr \notin {ready[i].addr : i \in DOMAIN ready} \cup {p.addr : p \in inactive}
                    \cup {running[i].addr : i \in DOMAIN running}
    /\ ready' = Append(ready, NewProcess(pid, priority, addr))
    /\ log' = <<>>
    /\ marked' = [pid |-> 0, n |-> 0]
    /\ UNCHANGED <<inactive, running>>
    /\ SchedulerCalled

\* The lookup goes wrong: any INACTIVE process is found for an unknown pid.
find_inactive_any(set, pid) ==
    IF \E p \in set : p.id = pid THEN {p \in set : p.id = pid} ELSE set

\* The INACTIVE process `pid`, if there is one.
find_inactive(set, pid) == {p \in set : p.id = pid}

\* What mark_ready(pid) does to the scheduler: an INACTIVE process becomes
\* READY; any other pid (READY, held by a caller, or outdated) changes
\* nothing.
MarkedReady(pid) ==
    /\ LET found == find_inactive(inactive, pid)
       IN  IF found # {}
           THEN /\ ready' = Append(ready, move_box(CHOOSE p \in found : TRUE))
                /\ inactive' = remove_inactive(inactive, pid)
           ELSE UNCHANGED <<ready, inactive>>
    /\ log' = <<>>
    /\ marked' = [pid |-> pid,
                  n |-> IF marked.pid = pid /\ marked.n < 2 THEN marked.n + 1
                        ELSE IF marked.pid = pid THEN marked.n ELSE 1]

\* mark_ready(pid), called on the scheduler.
mark_ready(pid) == MarkedReady(pid) /\ UNCHANGED running /\ SchedulerCalled

\* next_process(): the READY process no other READY process is scheduled
\* before is removed and handed to the caller; None without one.
next_process ==
    /\ Len(log) < MaxLog
    /\ LET c == Smallest(ready)
       IN  IF c = {}
           THEN /\ log' = Append(log, NoProcess)
                /\ UNCHANGED <<ready, running>>
           ELSE LET i == CHOOSE i \in c : \A j \in c : i <= j
                IN  /\ ready' = RemoveAt(ready, i)
                    /\ running' = Append(running, move_box(ready[i]))
                    /\ log' = Append(log, move_box(ready[i]))
    /\ UNCHANGED <<inactive, marked, notSchedVars>>

\* ProcessData::run of a process a caller holds: the process is polled
\* where it is, and `elapsed` is added to its runtime.
run(i, elapsed) ==
    /\ i \in DOMAIN running
    /\ running[i].runtime + elapsed <= MaxRuntime
    /\ running' = [running EXCEPT ![i].runtime = @ + elapsed,
                                  ![i].polled_at = IF @ = 0 THEN running[i].addr ELSE @]
    /\ log' = <<>>
    /\ marked' = [pid |-> 0, n |-> 0]
    /\ UNCHANGED <<ready, inactive>>
    /\ SchedulerCalled

\* add_back_process(process): the process a caller holds becomes INACTIVE.
add_back_process(i) ==
    /\ i \in DOMAIN running
    /\ inactive' = inactive \cup {move_box(running[i])}
    /\ running' = RemoveAt(running, i)
    /\ log' = <<>>
    /\ marked' = [pid |-> 0, n |-> 0]
    /\ UNCHANGED ready
    /\ SchedulerCalled

\* complete(process): the process a caller holds is dropped.
complete(i) ==
    /\ i \in DOMAIN running
    /\ running' = RemoveAt(running, i)
    /\ log' = <<>>
    /\ marked' = [pid |-> 0, n |-> 0]
    /\ UNCHANGED <<ready, inactive>>
    /\ SchedulerCalled

----------------------------------------------------------------------------
(* Task wakers (Wakers::new_task_waker as src/rt/src/waker/tests.rs uses   *)
(* it): a waker is a data word that packs the slot of its Wakers and the    *)
(* pid; waking it looks the runtime internals up and calls mark_ready.      *)

\* Slot 1: the Wakers of the runtime internals the scheduler belongs to
\* (new_internals); slot 2: Wakers::new(Weak::new()).
WakerSlots == {1, 2}
NoWaker == [data |-> 0, slot |-> 0, pid |-> 0, clone |-> FALSE]
\* The part of the data word that holds the pid.
PidSpace == MaxPids + 1

\* The packing goes wrong: the slot is left out of the data word.
waker_data_pid_only(slot, pid) == pid

\* The packing goes wrong: the slot is not shifted past the pid.
waker_data_unshifted(slot, pid) == slot + pid

\* The data word of a waker for (slot, pid).
waker_data(slot, pid) == slot * PidSpace + pid
waker_slot(data) == data \div PidSpace
waker_pid(data) == data % PidSpace

\* task::Waker::will_wake: the data words are the same (the vtable is).
will_wake(a, b) == a.data = b.data

\* Weak<RuntimeInternals>::upgrade of the Wakers in `slot` gives the
\* internals.
upgrade(slot) == slot = 1

FreeWakers == {k \in 1 .. MaxWakers : wakers[k] = NoWaker}
FirstFree == CHOOSE k \in FreeWakers : \A j \in FreeWakers : k <= j
\* Waker k is a clone and no waker it can have been cloned from exists.
Orphan(k) ==
    /\ wakers[k].clone
    /\ \A j \in 1 .. MaxWakers : j # k => wakers[j].data # wakers[k].data

\* Wakers::new_task_waker(pid) on the Wakers in `slot`.
new_task_waker(slot, pid) ==
    /\ FreeWakers # {}
    /\ wakers' = [wakers EXCEPT ![FirstFree] =
                    [data |-> waker_data(slot, pid), slot |-> slot, pid |-> pid,
                     clone |-> FALSE]]
    /\ UNCHANGED <<woke, schedVars, inboxVars, workerVars, actorVars, listVars>>

\* task::Waker::clone.
clone_waker(k) ==
    /\ wakers[k] # NoWaker
    /\ FreeWakers # {}
    /\ wakers' = [wakers EXCEPT ![FirstFree] =
                    [wakers[k] EXCEPT !.clone = TRUE]]
    /\ UNCHANGED <<woke, schedVars, inboxVars, workerVars, actorVars, listVars>>

\* Drop for task::Waker.
drop_waker(k) ==
    /\ wakers[k] # NoWaker
    /\ wakers' = [wakers EXCEPT ![k] = NoWaker]
    /\ UNCHANGED <<woke, schedVars, inboxVars, workerVars, actorVars, listVars>>

\* What waking the data word does: mark_ready(pid) on the scheduler of the
\* internals, nothing when there are no internals.
WakeData(data) ==
    IF upgrade(waker_slot(data)) THEN MarkedReady(waker_pid(data))
    ELSE UNCHANGED <<ready, inactive, log, marked>>

\* task::Waker::wake_by_ref.
wake_by_ref(k) ==
    /\ wakers[k] # NoWaker
    /\ WakeData(wakers[k].data)
    /\ woke' = [slot |-> wakers[k].slot, pid |-> wakers[k].pid,
                orphan |-> Orphan(k),
                found |-> inactive' # inactive]
    /\ UNCHANGED <<wakers, running, inboxVars, workerVars,
                   actorVars, listVars>>

\* task::Waker::wake: wakes and drops the waker.
wake(k) ==
    /\ wakers[k] # NoWaker
    /\ WakeData(wakers[k].data)
    /\ woke' = [slot |-> wakers[k].slot, pid |-> wakers[k].pid,
                orphan |-> Orphan(k),
                found |-> inactive' # inactive]
    /\ wakers' = [wakers EXCEPT ![k] = NoWaker]
    /\ UNCHANGED <<running, inboxVars, workerVars, actorVars, listVars>>

----------------------------------------------------------------------------
(* Specification SpecSched: every scheduler operation, in any order, on up  *)
(* to MaxPids processes, the Box of process pid at address pid.             *)

NextSched ==
    \/ \E priority \in Priorities, pid \in Pids : add_new_process(priority, pid, pid)
    \/ \E pid \in Pids : mark_ready(pid)
    \/ next_process
    \/ \E i \in 1 .. MaxPids, elapsed \in 1 .. MaxRuntime : run(i, elapsed)
    \/ \E i \in 1 .. MaxPids : add_back_process(i) \/ complete(i)

SpecSched == InitSmall /\ [][NextSched]_vars

----------------------------------------------------------------------------
(* Specification SpecWake: one process at a time, of priority NORMAL and    *)
(* never run (its Box at address pid), the scheduler operations on it and   *)
(* the task wakers.                                                         *)

NextWake ==
    \/ \E pid \in Pids :
        \/ ~has_process /\ running = <<>> /\ add_new_process("NORMAL", pid, pid)
        \/ mark_ready(pid)
    \/ next_process
    \/ \E i \in 1 .. MaxPids : add_back_process(i) \/ complete(i)
    \/ \E slot \in WakerSlots, pid \in Pids : new_task_waker(slot, pid)
    \/ \E k \in 1 .. MaxWakers :
        clone_waker(k) \/ drop_waker(k) \/ wake_by_ref(k) \/ wake(k)

SpecWake == InitSmall /\ [][NextWake]_vars

----------------------------------------------------------------------------
(* Specification SpecPin: up to MaxPinned processes of priority NORMAL,     *)
(* each in a Box at any free address, that are taken, run, added back and   *)
(* marked ready.                                                            *)

NextPin ==
    \/ \E pid \in Pids, addr \in Addrs :
        /\ Len(ready) + Cardinality(inactive) + Len(running) < MaxPinned
        /\ add_new_process("NORMAL", pid, addr)
    \/ \E pid \in Pids : mark_ready(pid)
    \/ next_process
    \/ \E i \in 1 .. MaxPids, elapsed \in 1 .. MaxRuntime : run(i, elapsed)
    \/ \E i \in 1 .. MaxPids : add_back_process(i) \/ complete(i)

SpecPin == InitSmall /\ [][NextPin]_vars

----------------------------------------------------------------------------
(* The worker thread's event loop (src/src/rt/worker.rs lines 126-321).     *)
(* The thread-local scheduler, the shared scheduler, the waker channel and  *)
(* the timers are the sets of pids they hold; a step of the loop is one     *)
(* dispatch, one run of the dispatched process, the determining of the poll *)
(* timeout, or the return of the poll with the scheduling that follows it.  *)
(* Other threads wake processes at any time.                                *)

RUN_POLL_RATIO == 32
LocalPids == 1 .. NumLocal
SharedPids == (NumLocal + 1) .. (NumLocal + NumShared)
\* Option<Duration>::None.
NoTimeout == -1

sched_has_process(s) == s.ready # {} \/ s.inactive # {}
sched_has_ready_process(s) == s.ready # {}
sched_mark_ready(s, pids) ==
    [ready |-> s.ready \cup (s.inactive \cap pids), inactive |-> s.inactive \ pids]
sched_remove(s, pid) == [s EXCEPT !.ready = @ \ {pid}]
add_process_as_ready(s, pid) == [s EXCEPT !.ready = @ \cup {pid}]
\* scheduler.add_process(process) of a process that returned Pending.
add_process(s, pid) == [s EXCEPT !.inactive = @ \cup {pid}]

\* Timers::next_deadline() and Timers::deadlines().
next_deadline ==
    CHOOSE d \in {t.deadline : t \in timers} : \A t \in timers : d <= t.deadline
expired == {t \in timers : t.deadline <= now}

determine_timeout_blocking(local, events, shared) == NoTimeout
\* determine_timeout(): the timeout handed to Poll::poll.
determine_timeout(local, events, shared) ==
    IF sched_has_ready_process(local) \/ events # {}
       \/ sched_has_ready_process(shared)
    THEN 0
    ELSE IF timers # {}
         THEN (IF next_deadline <= now THEN 0 ELSE next_deadline - now)
         ELSE NoTimeout

\* The setup function adds the actors the worker starts with.
setup(lr, li, sr, si) ==
    /\ worker.pc = "new"
    /\ scheduler' = [ready |-> lr, inactive |-> li]
    /\ scheduler_ref' = [ready |-> sr, inactive |-> si]
    /\ worker' = [worker EXCEPT !.pc = "batch"]
    /\ UNCHANGED <<waker_events, timers, now, inboxVars, schedVars, wakerVars, actorVars, listVars>>

Waited(stolen) ==
    IF stolen # 0 /\ scheduler.ready # {}
    THEN (IF worker.waited < MaxWaited THEN worker.waited + 1 ELSE MaxWaited)
    ELSE 0

\* One pass of `for _ in 0..RUN_POLL_RATIO` up to process.run(): try_steal()
\* of the shared scheduler, else next_process() of the local one, else the
\* return or the break.  try_steal() may fail to return a ready process.
dispatch(stolen, pid) ==
    /\ worker.pc = "batch"
    /\ stolen \in scheduler_ref.ready \cup {0}
    /\ pid \in scheduler.ready \cup {0}
    /\ stolen # 0 => pid = 0
    /\ (stolen = 0 /\ scheduler.ready # {}) => pid # 0
    /\ IF stolen # 0
       THEN /\ scheduler_ref' = sched_remove(scheduler_ref, stolen)
            /\ worker' = [worker EXCEPT !.pc = "run", !.pid = stolen,
                                        !.from = "shared", !.polls = 0,
                                        !.waited = Waited(stolen),
                                        !.woken = @ \ {stolen}]
            /\ UNCHANGED scheduler
       ELSE IF pid # 0
       THEN /\ scheduler' = sched_remove(scheduler, pid)
            /\ worker' = [worker EXCEPT !.pc = "run", !.pid = pid,
                                        !.from = "local", !.polls = 0,
                                        !.waited = 0,
                                        !.woken = @ \ {pid}]
            /\ UNCHANGED scheduler_ref
       ELSE /\ worker' = [worker EXCEPT
                  !.pc = IF ~sched_has_process(scheduler)
                            /\ ~sched_has_process(scheduler_ref)
                         THEN "done" ELSE "poll",
                  !.waited = 0]
            /\ UNCHANGED <<scheduler, scheduler_ref>>
    /\ UNCHANGED <<waker_events, timers, now, inboxVars, schedVars, wakerVars, actorVars, listVars>>

\* The end of a pass: the next pass, or schedule_processes() after the last.
AfterRun(w) ==
    [w EXCEPT !.iter = IF w.iter + 1 = RUN_POLL_RATIO THEN 0 ELSE w.iter + 1,
              !.pc = IF w.iter + 1 = RUN_POLL_RATIO THEN "poll" ELSE "batch",
              !.polls = w.polls + 1,
              !.pid = 0,
              !.from = "none"]

\* process.run() returned ProcessResult::Complete: the process is dropped.
run_complete ==
    /\ worker.pc = "run"
    /\ worker' = [AfterRun(worker) EXCEPT !.done = @ \cup {worker.pid},
                                          !.woken = @ \ {worker.pid}]
    /\ UNCHANGED <<scheduler, scheduler_ref, waker_events, timers, now,
                   inboxVars, schedVars, wakerVars, actorVars, listVars>>

\* process.run() returned ProcessResult::Pending, after the process set a
\* timer `delay` ahead (0: it set none): add_process() on the scheduler the
\* process came from.
run_pending(delay) ==
    /\ worker.pc = "run"
    /\ delay > 0 => worker.from = "local" /\ Cardinality(timers) < MaxTimers
    /\ timers' = IF delay > 0
                 THEN timers \cup {[deadline |-> now + delay, pid |-> worker.pid]}
                 ELSE timers
    /\ IF worker.from = "shared"
       THEN /\ scheduler_ref' = add_process(scheduler_ref, worker.pid)
            /\ UNCHANGED scheduler
       ELSE /\ scheduler' = add_process(scheduler, worker.pid)
            /\ UNCHANGED scheduler_ref
    /\ worker' = AfterRun(worker)
    /\ UNCHANGED <<waker_events, now, inboxVars, schedVars, wakerVars, actorVars, listVars>>

\* Duration::subsec_nanos: the part of the duration below a whole second.
subsec_nanos(timeout) ==
    (timeout % TicksPerSecond) * (1000000000 \div TicksPerSecond)

\* is_zero(timeout), lines 352-357.
is_zero(timeout) == timeout # NoTimeout /\ subsec_nanos(timeout) = 0

\* poll() up to Poll::poll: the timeout is determined, the worker marks
\* itself as polling unless is_zero(timeout), and the thread waits.
poll ==
    /\ worker.pc = "poll"
    /\ LET timeout == determine_timeout(scheduler, waker_events, scheduler_ref)
       IN worker' = [worker EXCEPT
                         !.pc = "polling",
                         !.timeout = timeout,
                         !.mark_waker = ~is_zero(timeout),
                         !.until = IF timeout > 0 THEN now + timeout ELSE 0]
    /\ UNCHANGED <<scheduler, scheduler_ref, waker_events, timers, now,
                   inboxVars, schedVars, wakerVars, actorVars, listVars>>

\* Poll::poll returns (at once with a zero timeout, else on the awakener's
\* event or when the timeout has passed), the polling mark is taken back,
\* and schedule_processes() marks ready the pids of the waker events and of
\* the deadlines that passed.
schedule_processes ==
    /\ worker.pc = "polling"
    /\ \/ worker.timeout = 0
       \/ waker_events # {}
       \/ sched_has_ready_process(scheduler_ref)
       \/ worker.timeout > 0 /\ now >= worker.until
    /\ scheduler' = sched_mark_ready(scheduler,
                        waker_events \cup {t.pid : t \in expired})
    /\ waker_events' = {}
    /\ timers' = timers \ expired
    /\ worker' = [worker EXCEPT !.pc = "batch", !.iter = 0, !.timeout = 0,
                                !.until = 0, !.mark_waker = FALSE]
    /\ UNCHANGED <<scheduler_ref, now, inboxVars, schedVars, wakerVars, actorVars, listVars>>

Running == worker.pc \notin {"new", "done"}

\* The worker holds process pid: it was handed out and is being run.
BeingRun(pid) == worker.pc = "run" /\ worker.pid = pid
\* Ghost: a wake-up of pid that arrives while pid is being run is noted
\* until pid is run again.
WokenInRun(pid) ==
    IF BeingRun(pid) THEN [worker EXCEPT !.woken = @ \cup {pid}] ELSE worker

\* Wake::wake of a thread-local process's waker (src/src/waker.rs): the pid
\* is sent into the channel.
waker_wake(pid) ==
    /\ Running
    /\ pid \notin waker_events
    /\ waker_events' = waker_events \cup {pid}
    /\ worker' = WokenInRun(pid)
    /\ UNCHANGED <<scheduler, scheduler_ref, timers, now,
                   inboxVars, schedVars, wakerVars, actorVars, listVars>>

\* Another thread marks a process of the shared scheduler ready: mark_ready
\* moves an INACTIVE process to READY, and does nothing for a process that
\* is not stored (one that is being run included).
shared_mark_ready(pid) ==
    /\ Running
    /\ pid \in scheduler_ref.inactive
       \/ (BeingRun(pid) /\ pid \notin worker.woken)
    /\ scheduler_ref' = sched_mark_ready(scheduler_ref, {pid})
    /\ worker' = WokenInRun(pid)
    /\ UNCHANGED <<scheduler, waker_events, timers, now,
                   inboxVars, schedVars, wakerVars, actorVars, listVars>>

\* Time passes.
tick ==
    /\ Running
    /\ now < MaxTime
    /\ now' = now + 1
    /\ UNCHANGED <<scheduler, scheduler_ref, waker_events, timers, worker,
                   inboxVars, schedVars, wakerVars, actorVars, listVars>>

NextWorker ==
    \/ \E lr \in SUBSET LocalPids, sr \in SUBSET SharedPids :
        \E li \in SUBSET (LocalPids \ lr), si \in SUBSET (SharedPids \ sr) :
            setup(lr, li, sr, si)
    \/ \E stolen \in SharedPids \cup {0}, pid \in LocalPids \cup {0} :
        dispatch(stolen, pid)
    \/ run_complete
    \/ \E delay \in 0 .. MaxDelay : run_pending(delay)
    \/ poll
    \/ schedule_processes
    \/ \E pid \in LocalPids : waker_wake(pid)
    \/ \E pid \in SharedPids : shared_mark_ready(pid)
    \/ tick

SpecWorker == InitSmall /\ [][NextWorker]_vars

----------------------------------------------------------------------------
(* ActorProcess::run (src/src/system/process/actor.rs lines 40-80; the      *)
(* older src/src/process/actor.rs lines 50-82 is the same without the       *)
(* failing NewActor::new).  The actor's poll, the supervisor's decision and *)
(* NewActor::new are the caller's code: each is a step with any outcome.    *)

Inboxes == 1 .. MaxInboxes
Args == 1 .. MaxArgs

restarted_actor_new_inbox(process, arg) ==
    [pid |-> process.pid, inbox |-> (process.inbox % MaxInboxes) + 1,
     arg |-> arg, restarts |-> process.actor.restarts + 1]
\* The actor NewActor::new(ctx, arg) makes, with
\* ctx = actor::Context::new(pid, system_ref.clone(), this.inbox.clone()).
restarted_actor(process, arg) ==
    [pid |-> process.pid, inbox |-> process.inbox, arg |-> arg,
     restarts |-> process.actor.restarts + 1]

\* ActorProcess::new(supervisor, new_actor, actor, inbox) for a spawned actor.
new_actor_process(pid, inbox, arg) ==
    /\ actor_process.pc = "none"
    /\ actor_process' = [NoActorProcess EXCEPT
            !.pc = "idle", !.pid = pid, !.inbox = inbox,
            !.actor = [pid |-> pid, inbox |-> inbox, arg |-> arg,
                       restarts |-> 0]]
    /\ UNCHANGED <<inboxVars, schedVars, wakerVars, workerVars, listVars>>

\* The scheduler's worker calls run() (again, after a Pending).
actor_run ==
    /\ actor_process.pc = "idle"
    /\ actor_process.result # "Complete"
    /\ actor_process.runs < MaxRuns
    /\ actor_process' = [actor_process EXCEPT
            !.pc = "try_poll", !.runs = @ + 1, !.polls = 0, !.restarted = 0,
            !.polled = "none", !.result = "none"]
    /\ UNCHANGED <<inboxVars, schedVars, wakerVars, workerVars, listVars>>

\* Actor::try_poll returns Ready(Ok(())), Ready(Err(err)) or Pending.
actor_try_poll(polled) ==
    /\ actor_process.pc = "try_poll"
    /\ actor_process' = [actor_process EXCEPT
            !.polls = @ + 1,
            !.polled = polled,
            !.pc = IF polled = "Err" THEN "decide" ELSE "idle",
            !.result = CASE polled = "Ok" -> "Complete"
                         [] polled = "Pending" -> "Pending"
                         [] OTHER -> "none"]
    /\ UNCHANGED <<inboxVars, schedVars, wakerVars, workerVars, listVars>>

\* supervisor.decide(err) returns Stop (arg = 0) or Restart(arg); with
\* Restart NewActor::new(ctx, arg) returns Ok(actor) or Err: the actor is
\* set and run() is called again, or the process is complete.
actor_decide(arg, created) ==
    /\ actor_process.pc = "decide"
    /\ arg # 0 /\ created => actor_process.actor.restarts < MaxRestarts
    /\ arg = 0 => created
    /\ actor_process' =
         IF arg # 0 /\ created
         THEN [actor_process EXCEPT
                  !.actor = restarted_actor(actor_process, arg),
                  !.restarted = @ + 1,
                  !.pc = "try_poll"]
         ELSE [actor_process EXCEPT
                  !.pc = "idle", !.result = "Complete",
                  !.polled = IF arg = 0 THEN "Stop" ELSE "NewFailed"]
    /\ UNCHANGED <<inboxVars, schedVars, wakerVars, workerVars, listVars>>

NextActor ==
    \/ \E pid \in Pids, inbox \in Inboxes, arg \in Args :
        new_actor_process(pid, inbox, arg)
    \/ actor_run
    \/ \E polled \in {"Ok", "Err", "Pending"} : actor_try_poll(polled)
    \/ \E arg \in Args \cup {0}, created \in BOOLEAN : actor_decide(arg, created)

SpecActor == InitSmall /\ [][NextActor]_vars

----------------------------------------------------------------------------
(* Spawning with ActorOptions (src/src/rt/options.rs lines 30-77,           *)
(* RuntimeInternals::try_spawn in src/rt/src/shared/mod.rs lines 227-248).  *)

ActorOptions == [priority : Priorities, ready : BOOLEAN]
\* ActorOptions::default(), with Priority::default() being NORMAL.
default_options == [priority |-> "NORMAL", ready |-> FALSE]
with_priority(options, priority) == [options EXCEPT !.priority = priority]
options_mark_ready(options) == [options EXCEPT !.ready = TRUE]
is_ready(options) == options.ready

\* try_spawn(supervisor, new_actor, arg, options): the process of the actor
\* is added with add_new_process(options.priority(), ..); is_ready() is not
\* called.
try_spawn(options, pid) == add_new_process(options.priority, pid, pid)

NextSpawn ==
    \/ \E options \in ActorOptions, pid \in Pids : try_spawn(options, pid)
    \/ \E pid \in Pids : mark_ready(pid)
    \/ next_process
    \/ \E i \in 1 .. MaxPids : add_back_process(i) \/ complete(i)

SpecSpawn == InitSmall /\ [][NextSpawn]_vars

----------------------------------------------------------------------------
(* The pending-sender list with one atomic access per step: add_waker      *)
(* (lines 866-899), next_waker (821-864), remove_waker (901-961), called   *)
(* by SendValue::register_waker (420-448), Drop for SendValue (493-508)    *)
(* and Receiver::try_recv (595).  A node lives in its future: it is made   *)
(* by the first register_waker and its memory is gone when the future's    *)
(* drop returns; what a read of such memory yields is not determined.      *)

Dangling(ptr) == ptr # 0 /\ waker_list.fut[ptr] = "dropped"
\* What a load of node n's `next` may yield.
NextValues(n) == IF Dangling(n) THEN ListPtrs ELSE {waker_list.next[n]}
\* What a load of the link `ptr` may yield: 0 is &sender_waker_head, n is
\* &n.next.
LinkValues(ptr) == IF ptr = 0 THEN {waker_list.head} ELSE NextValues(ptr)
StoreLink(wl, ptr, v) ==
    IF ptr = 0 THEN [wl EXCEPT !.head = v] ELSE [wl EXCEPT !.next[ptr] = v]
Accessed(wl, t, ptr) ==
    IF Dangling(ptr) THEN [wl EXCEPT !.uaf = @ \cup {t}] ELSE wl
ListStep(wl) ==
    /\ waker_list' = wl
    /\ UNCHANGED <<inboxVars, schedVars, wakerVars, workerVars, actorVars>>

\* add_waker returns: to register_waker, or to next_waker (line 850).
AddReturn(wl, t) ==
    [wl EXCEPT !.calls[t].pc = IF t = 0 THEN "nw_decide" ELSE "idle"]

\* A call starts; with `alone` only when no other call is in progress.
MayStart(t, alone) ==
    /\ waker_list.calls[t].pc = "idle"
    /\ alone => \A u \in ListThreads : waker_list.calls[u].pc = "idle"

\* register_waker, lines 432-446: the future has no node yet; make it with
\* the waker and a null link, then add_waker(node).
RegisterNode(n, w, alone) ==
    /\ waker_list.fut[n] = "new" /\ MayStart(n, alone)
    /\ ListStep([waker_list EXCEPT !.fut[n] = "listed", !.waker[n] = w,
                                   !.next[n] = 0,
                                   !.order = Append(@, n),
                                   !.first[n] = w, !.supplied[n] = w,
                                   !.calls[n] = [NoListCall EXCEPT
                                       !.pc = "add_load", !.node = n]])

\* The stored waker gone wrong: a waker that is there is kept.
keep_stored_waker(stored, new_waker) == IF stored # 0 THEN stored ELSE new_waker

\* register_waker, lines 425-430: the stored waker stays if it will_wake
\* new_waker, else new_waker takes its place.
store_waker(stored, new_waker) == IF stored = new_waker THEN stored ELSE new_waker

\* register_waker, lines 421-431: the future has a node already; under the
\* node's lock the waker is replaced, and add_waker is not called.
ReRegister(n, w, alone) ==
    /\ waker_list.fut[n] = "listed" /\ MayStart(n, alone)
    /\ ListStep([waker_list EXCEPT
                    !.waker[n] = store_waker(waker_list.waker[n], w),
                    !.supplied[n] = w])

\* add_waker, lines 871-872 and 886-888: load the link; follow it if it is
\* not null.
AddLoad(t) ==
    /\ waker_list.calls[t].pc = "add_load"
    /\ LET c == waker_list.calls[t]
           wl == Accessed(waker_list, t, c.ptr)
       IN  \E v \in LinkValues(c.ptr) :
             ListStep(IF v = 0 THEN [wl EXCEPT !.calls[t].pc = "add_cas"]
                      ELSE [wl EXCEPT !.calls[t].ptr = v])

\* add_waker, lines 874-885: compare_exchange(null, node) on the link.
AddCas(t) ==
    /\ waker_list.calls[t].pc = "add_cas"
    /\ LET c == waker_list.calls[t]
           wl == Accessed(waker_list, t, c.ptr)
       IN  \E cur \in LinkValues(c.ptr) :
             ListStep(IF cur = 0 THEN AddReturn(StoreLink(wl, c.ptr, c.node), t)
                      ELSE [wl EXCEPT !.calls[t].ptr = cur,
                                      !.calls[t].pc = "add_load"])

\* Drop for SendValue, lines 495-504: a future that has a node takes the
\* waker out under the lock, then remove_waker(node).
DropFuture(n, alone) ==
    /\ waker_list.fut[n] = "listed" /\ MayStart(n, alone)
    /\ ListStep([waker_list EXCEPT !.waker[n] = 0,
                                   !.calls[n] = [NoListCall EXCEPT
                                       !.pc = "rm_head", !.node = n]])

\* remove_waker returns, and so does the drop: the node's memory is gone.
RemoveReturn(wl, n) ==
    [wl EXCEPT !.calls[n] = NoListCall, !.fut[n] = "dropped"]

\* remove_waker, lines 910-914 and 931: load the head.
RmHead(n) ==
    /\ waker_list.calls[n].pc = "rm_head"
    /\ LET h == waker_list.head
       IN  ListStep(IF h = 0 THEN RemoveReturn(waker_list, n)
                    ELSE IF h = n
                    THEN [waker_list EXCEPT !.calls[n].pc = "rm_next",
                                            !.calls[n].parent = 0]
                    ELSE [waker_list EXCEPT !.calls[n].pc = "rm_link",
                                            !.calls[n].parent = h])

\* remove_waker, lines 933-940 and 955-957: load parent.next.
RmLink(n) ==
    /\ waker_list.calls[n].pc = "rm_link"
    /\ LET c == waker_list.calls[n]
           wl == Accessed(waker_list, n, c.parent)
       IN  \E link \in NextValues(c.parent) :
             ListStep(IF link = 0 THEN RemoveReturn(wl, n)
                      ELSE IF link = n THEN [wl EXCEPT !.calls[n].pc = "rm_next"]
                      ELSE [wl EXCEPT !.calls[n].parent = link])

\* remove_waker, lines 918 and 940: load node.next.
RmNext(n) ==
    /\ waker_list.calls[n].pc = "rm_next"
    /\ ListStep([waker_list EXCEPT !.calls[n].next_ptr = waker_list.next[n],
                                   !.calls[n].pc = "rm_cas"])

\* remove_waker, lines 919-929 and 941-952: compare_exchange(node, next_ptr)
\* on the head or on parent.next.
RmCas(n) ==
    /\ waker_list.calls[n].pc = "rm_cas"
    /\ LET c == waker_list.calls[n]
           wl == Accessed(waker_list, n, c.parent)
       IN  \E cur \in LinkValues(c.parent) :
             ListStep(IF cur = n
                      THEN RemoveReturn(StoreLink(wl, c.parent, c.next_ptr), n)
                      ELSE [wl EXCEPT !.calls[n].pc = "rm_head"])

\* Receiver::try_recv, line 595: a value was taken, next_waker() is called.
NextWakerCall(alone) ==
    /\ MayStart(0, alone)
    /\ ListStep([waker_list EXCEPT !.calls[0] = [NoListCall EXCEPT !.pc = "nw_load"]])

\* next_waker, lines 823-826: load the head; None if it is null.
NwLoad ==
    /\ waker_list.calls[0].pc = "nw_load"
    /\ LET h == waker_list.head
       IN  ListStep(IF h = 0 THEN [waker_list EXCEPT !.calls[0] = NoListCall]
                    ELSE [waker_list EXCEPT !.calls[0].head_ptr = h,
                                            !.calls[0].pc = "nw_next"])

\* next_waker, line 830: load next_node.next.
NwNext ==
    /\ waker_list.calls[0].pc = "nw_next"
    /\ LET c == waker_list.calls[0]
           wl == Accessed(waker_list, 0, c.head_ptr)
       IN  \E v \in NextValues(c.head_ptr) :
             ListStep([wl EXCEPT !.calls[0].next_ptr = v, !.calls[0].pc = "nw_cas"])

\* next_waker, lines 831-836 and 861: compare_exchange(head_ptr, next_ptr)
\* on the head.
NwCas ==
    /\ waker_list.calls[0].pc = "nw_cas"
    /\ LET c == waker_list.calls[0]
       IN  ListStep(IF waker_list.head = c.head_ptr
                    THEN [waker_list EXCEPT !.head = c.next_ptr,
                                            !.popped = @ \cup {c.head_ptr},
                                            !.calls[0].pc = "nw_take"]
                    ELSE [waker_list EXCEPT !.calls[0].pc = "nw_load"])

\* next_waker, line 840: next_node.waker.lock().take().
NwTake ==
    /\ waker_list.calls[0].pc = "nw_take"
    /\ LET c == waker_list.calls[0]
           wl == Accessed(waker_list, 0, c.head_ptr)
       IN  \E w \in IF Dangling(c.head_ptr) THEN {0, waker_list.supplied[c.head_ptr]}
                    ELSE {waker_list.waker[c.head_ptr]} :
             ListStep([wl EXCEPT !.waker[c.head_ptr] = 0,
                                 !.calls[0].waker = w, !.calls[0].pc = "nw_swap"])

\* next_waker, lines 846-849: swap next_node.next with null; a node linked
\* meanwhile is added again.
NwSwap ==
    /\ waker_list.calls[0].pc = "nw_swap"
    /\ LET c == waker_list.calls[0]
           wl == Accessed(waker_list, 0, c.head_ptr)
       IN  \E updated_next_ptr \in NextValues(c.head_ptr) :
             ListStep(IF updated_next_ptr # c.next_ptr /\ updated_next_ptr # 0
                      THEN [wl EXCEPT !.next[c.head_ptr] = 0,
                                      !.calls[0].node = updated_next_ptr,
                                      !.calls[0].ptr = 0,
                                      !.calls[0].pc = "add_load"]
                      ELSE [wl EXCEPT !.next[c.head_ptr] = 0,
                                      !.calls[0].pc = "nw_decide"])

\* next_waker, lines 852-859: a node without a waker is skipped, else the
\* waker is returned (and try_recv wakes it).
NwDecide ==
    /\ waker_list.calls[0].pc = "nw_decide"
    /\ LET c == waker_list.calls[0]
       IN  ListStep(IF c.waker = 0
                    THEN [waker_list EXCEPT !.calls[0].pc = "nw_load"]
                    ELSE [waker_list EXCEPT
                            !.calls[0] = NoListCall,
                            !.woken = @ \cup {<<c.head_ptr, c.waker>>},
                            !.wakes[c.head_ptr] = IF @ < 2 THEN @ + 1 ELSE 2])

\* Specification SpecList: first polls and drops of send futures and the
\* receiver's next_waker calls, overlapping; every future is polled with the
\* same task waker.
NextList ==
    \/ \E n \in ListNodes :
        \/ RegisterNode(n, 1, FALSE)
        \/ AddLoad(n) \/ AddCas(n)
        \/ DropFuture(n, FALSE) \/ RmHead(n) \/ RmLink(n) \/ RmNext(n) \/ RmCas(n)
    \/ NextWakerCall(FALSE) \/ NwLoad \/ NwNext \/ NwCas \/ NwTake \/ NwSwap
    \/ AddLoad(0) \/ AddCas(0) \/ NwDecide

SpecList == InitSmall /\ [][NextList]_vars

\* The same calls, one after the other, as the tests make them.
NextListSeq ==
    \/ \E n \in ListNodes :
        \/ \E w \in ListWakers : RegisterNode(n, w, TRUE) \/ ReRegister(n, w, TRUE)
        \/ AddLoad(n) \/ AddCas(n)
        \/ DropFuture(n, TRUE) \/ RmHead(n) \/ RmLink(n) \/ RmNext(n) \/ RmCas(n)
    \/ NextWakerCall(TRUE) \/ NwLoad \/ NwNext \/ NwCas \/ NwTake \/ NwSwap
    \/ NwDecide

SpecListSeq == InitSmall /\ [][NextListSeq]_vars

----------------------------------------------------------------------------
(* Properties.                                                              *)

\* Values that were accepted and not yet returned by try_recv.
Undelivered == Cardinality(accepted) - Len(received)
NoSenders == \A s \in Senders : ~snd[s].h
NoEmptySlot == \A slot \in Slots : ~is_available(status, slot)
SomeFilledSlot == \E slot \in Slots : is_filled(status, slot)
Quiet == \A t \in 1 .. RecvId : ~Busy(t)
SendReturned(kind) == ret.op = "try_send" /\ ret.kind = kind
RecvReturned(kind) == ret.op = "try_recv" /\ ret.kind = kind

\* C1: for every interleaving of try_send calls from the senders with the
\* receiver's try_recv calls, every value try_recv returned is a value a
\* try_send stored (and that try_send does not fail), and no value is
\* returned twice.
C1_ReceivedWereSentOnce ==
    /\ \A i \in 1 .. Len(received) : received[i] \in accepted
    /\ \A i, j \in 1 .. Len(received) : i < j => received[i] # received[j]
    /\ accepted \subseteq 1 .. nsent
    /\ RecvReturned("Ok") => Len(received) > 0 /\ ret.val = received[Len(received)]
    /\ (SendReturned("Full") \/ SendReturned("Disconnected")) => ret.val \notin accepted
    /\ SendReturned("Ok") => ret.val \in accepted

\* A try_recv that ran while a sender was inside try_send returned a value,
\* with two Senders alive and one of them inside a try_send.
C1_Witness ==
    /\ RecvReturned("Ok") /\ ~ret.clean /\ Len(received) >= 2
    /\ \A s \in Senders : snd[s].h
    /\ \E s \in Senders : snd[s].pc \in {"take", "fill"}

\* C2: the channel holds at most SMALL_CAP undelivered values: with the
\* calls one after the other a try_send returns Full only when SMALL_CAP
\* values are undelivered (so the first SMALL_CAP sends into an empty channel
\* return Ok), and a try_send that returns Ok never brings them above
\* SMALL_CAP (so the next one returns Full).
C2_Capacity ==
    /\ Undelivered \in 0 .. SMALL_CAP
    /\ SendReturned("Full") => Undelivered = SMALL_CAP
    /\ SendReturned("Ok") => ret.val \in accepted

\* SMALL_CAP sends into the empty channel were accepted and the next
\* try_send returned Full.
C2_Witness ==
    /\ SendReturned("Full") /\ ret.val = SMALL_CAP + 1
    /\ Cardinality(accepted) = SMALL_CAP /\ Len(received) = 0

\* C3: when all Senders are dropped, try_recv returns Ok (the oldest
\* undelivered value) while a sent value is undelivered and Disconnected
\* once none is: never Empty, never Disconnected with a value in the
\* channel.
C3_DrainThenDisconnected ==
    (ret.op = "try_recv" /\ NoSenders) =>
        \/ /\ ret.kind = "Ok"
           /\ ret.val \in accepted
           /\ ret.val = Len(received)
        \/ /\ ret.kind = "Disconnected"
           /\ Undelivered = 0
           /\ ~SomeFilledSlot

\* SMALL_CAP values were sent, every Sender was dropped, the values were
\* received and try_recv then returned Disconnected.
C3_Witness ==
    /\ RecvReturned("Disconnected") /\ NoSenders
    /\ Cardinality(accepted) = SMALL_CAP /\ Len(received) = SMALL_CAP

\* The values were received in the order they were sent.
InSendOrder == \A i, j \in 1 .. Len(received) : i < j => received[i] < received[j]

\* C4 as stated: with one Sender and one Receiver, for every interleaving
\* of their calls, the values are received in the order they were sent.
C4_Orig_SendOrderAlways == InSendOrder

\* C4, amended: with one Sender and one Receiver, as long as no call was
\* started while the other side's call was in progress, the values are
\* received in the order they were sent, whatever number of try_recv calls
\* returned Empty in between.
C4_SendOrderWithoutOverlap ==
    overlaps = 0 => \A i \in 1 .. Len(received) : received[i] = i

\* Without any overlap, more values than the channel has slots were received
\* and the receiver position is not the number of values received: some
\* try_recv returned Empty and advanced it.
C4_Witness ==
    /\ overlaps = 0 /\ RecvReturned("Ok") /\ Len(received) = SMALL_CAP + 1
    /\ receiver_pos(status) # Len(received) % SMALL_CAP

\* C5: try_send returns Disconnected exactly when neither the Receiver nor
\* the Manager is alive at its connectivity check; the error carries the
\* value passed in and the call changes no slot status and no slot value.
C5_DisconnectedIffNoReceiverNoManager ==
    /\ [](ret.op = "try_send" => (ret.kind = "Disconnected" <=> (~rcv.h /\ ~mgr)))
    /\ [][(ret'.op = "try_send" /\ ret'.kind = "Disconnected") =>
            /\ ret'.val = nsent + 1
            /\ ret'.val \notin accepted'
            /\ status' = status
            /\ slots' = slots]_vars

\* A try_send returned Disconnected on a channel that still holds a value.
C5_Witness == SendReturned("Disconnected") /\ SomeFilledSlot /\ ~rcv.h /\ ~mgr

\* C6 as stated: also with other senders and the receiver running
\* concurrently, a try_send returns Full only while no slot is EMPTY.
C6_Orig_FullOnlyWithoutEmptySlot == SendReturned("Full") => NoEmptySlot

\* C6, amended: a try_send on a connected channel that no other call
\* overlaps returns Full exactly when no slot is EMPTY (else it returns Ok
\* with its value in a FILLED slot); overlapped or not, Full carries the
\* value passed in, which is stored nowhere, and every stored value that was
\* not received is still in its slot or in the receiver's hands.
C6_FullIffNoEmptySlotWithoutOverlap ==
    /\ (SendReturned("Full") /\ ret.clean) => NoEmptySlot
    /\ (SendReturned("Ok") /\ ret.clean) =>
            \E slot \in Slots : is_filled(status, slot) /\ slots[slot] = ret.val
    /\ SendReturned("Full") =>
            ret.val \notin accepted /\ \A slot \in Slots : slots[slot] # ret.val
    /\ Undelivered <= SMALL_CAP + (IF rcv.pc = "next_waker" THEN 1 ELSE 0)
    /\ \A v \in accepted :
            \/ \E i \in 1 .. Len(received) : received[i] = v
            \/ \E slot \in Slots : slots[slot] = v /\ ~is_available(status, slot)
            \/ rcv.pc = "next_waker" /\ rcv.value = v

\* With every Sender alive, a try_send of the last one that no call
\* overlapped returned Full.
C6_Witness ==
    /\ SendReturned("Full") /\ ret.clean /\ ret.who = NumSenders
    /\ \A s \in Senders : snd[s].h

\* C7: try_recv reads is_connected before it scans, and that reading is
\* whether a Sender is alive then; it returns Ok(value) if it took a value
\* out of a FILLED slot, also when all senders are gone; else Disconnected
\* if the senders were gone at the check, else Empty. A try_recv that no
\* call overlapped finds a FILLED slot if there is one.
C7_RecvResult ==
    [][/\ (rcv.pc = "idle" /\ rcv'.pc = "add") =>
              (rcv'.conn <=> \E s \in Senders : snd[s].h)
       /\ (rcv.pc # "idle" /\ rcv'.pc = "idle") =>
              /\ ret'.op = "try_recv"
              /\ ret'.kind \in {"Ok", "Disconnected", "Empty"}
              /\ ret'.kind = "Disconnected" => ~rcv.conn
              /\ ret'.kind = "Empty" => rcv.conn
              /\ ret'.kind = "Ok" =>
                    ret'.val \in accepted /\ received' = Append(received, ret'.val)
              /\ ret'.kind # "Ok" => received' = received
              /\ (ret'.kind # "Ok" /\ rcv.clean) =>
                    \A slot \in Slots : ~is_filled(status', slot)]_vars

\* try_recv returned a value although every Sender was gone when it checked.
C7_Witness == RecvReturned("Ok") /\ NoSenders /\ Undelivered > 0

\* Sender s is the only Sender there is.
OnlySender(s) == snd[s].h /\ \A u \in Senders \ {s} : ~snd[u].h
SendPolled(kind) == ret.op = "send_poll" /\ ret.kind = kind

\* C8: with one Sender, a send future returns Pending only on a full
\* channel, with its waker linked and not invoked; once a try_recv has
\* returned a value that waker has been invoked exactly once, so the next
\* poll finds the freed slot and returns Ready(Ok); the values, the
\* future's last, are received in the order they were sent.
C8_PendingSendWokenOnce ==
    \A s \in Senders : OnlySender(s) =>
        /\ SendPolled("Pending") =>
              /\ NoEmptySlot
              /\ Linked(s) /\ nodes[s].waker = s
              /\ task[s].parked /\ task[s].nwake = 0
        /\ (task[s].parked /\ (RecvReturned("Ok") \/ RecvReturned("Empty"))) =>
              task[s].nwake = 1
        /\ SendPolled("ReadyOk") =>
              \E slot \in Slots : is_filled(status, slot) /\ slots[slot] = ret.val
        /\ \A i \in 1 .. Len(received) : received[i] = i

\* The future's value was sent after SMALL_CAP others by a future that had
\* registered its waker, and it was received after them.
C8_Witness ==
    /\ OnlySender(1) /\ fut[1].st = "ready" /\ fut[1].has_node
    /\ nsent = SMALL_CAP + 1
    /\ RecvReturned("Ok") /\ ret.val = SMALL_CAP + 1 /\ Len(received) = SMALL_CAP + 1

\* C9: every poll of a send future that returns Pending, also one after a
\* wake-up where another sender took the freed slot, leaves the future's
\* waker linked in the pending-sender list (so that it is woken again and
\* in the end returns Ready).
C9_PendingLeavesWakerLinked ==
    \A s \in Senders :
        (SendPolled("Pending") /\ ret.who = s) => Linked(s) /\ nodes[s].waker = s

\* C10: the receiver is never left Pending and un-woken while a FILLED slot
\* is in the channel: once recv() has returned Pending, a try_send that
\* stores a value invokes the receiver's waker.
C10_PendingReceiverIsWoken ==
    (Quiet /\ rcv.h /\ task[RecvId].parked /\ task[RecvId].nwake = 0) => ~SomeFilledSlot

RecvPolled(kind) == ret.op = "recv_poll" /\ ret.kind = kind

\* C11: a receiver whose recv() returned Pending is woken when the last
\* Sender is dropped (unless a send woke it already), so it is never
\* left Pending and un-woken with no Sender alive.
C11_LastSenderDropWakes ==
    (Quiet /\ rcv.h /\ task[RecvId].parked /\ NoSenders) => task[RecvId].nwake = 1

\* C12: Manager::new_receiver returns Ok exactly when no Receiver is
\* alive, and the channel then has that one Receiver; when a Receiver is
\* alive it returns ReceiverConnected and changes nothing. The RECEIVER_ALIVE
\* bit says at every moment whether the Receiver exists.
C12_NewReceiverIffNoReceiver ==
    /\ [](~freed => (rcv.h <=> ~NoReceiver(ref_count)))
    /\ [][ret'.op = "new_receiver" =>
            /\ ret'.kind = "Ok" <=> ~rcv.h
            /\ ret'.kind = "Ok" =>
                  rcv'.h /\ status' = status /\ slots' = slots
            /\ ret'.kind = "ReceiverConnected" =>
                  rcv' = rcv /\ UNCHANGED chanVars]_vars

\* Manager::new_receiver returned a Receiver for a channel that holds a value.
C12_Witness ==
    ret.op = "new_receiver" /\ ret.kind = "Ok" /\ rcv.by_manager /\ SomeFilledSlot

\* C13: while the Manager is alive, try_send succeeds (or finds the channel
\* full) whether or not a Receiver exists, the values sent stay in their
\* slots, and the Receiver made by Manager::new_receiver receives them, all
\* of them and in send order.
C13_ValuesKeptForNewReceiver ==
    /\ (ret.op = "try_send" /\ mgr) =>
            \/ ret.kind = "Ok" /\ ret.val \in accepted
            \/ ret.kind = "Full" /\ Undelivered = SMALL_CAP
    /\ \A v \in accepted :
            \/ \E i \in 1 .. Len(received) : received[i] = v
            \/ \E slot \in Slots : slots[slot] = v /\ ~is_available(status, slot)
            \/ rcv.pc = "next_waker" /\ rcv.value = v
    /\ \A i \in 1 .. Len(received) : received[i] = i
    /\ (ret.op = "try_recv" /\ ret.kind # "Ok") => Undelivered = 0

\* The Receiver made by Manager::new_receiver has received SMALL_CAP values,
\* all sent before it existed.
C13_Witness ==
    /\ RecvReturned("Ok") /\ rcv.by_manager /\ mgr
    /\ Len(received) = SMALL_CAP /\ Cardinality(accepted) = SMALL_CAP

\* C14: whenever a Sender exists, Sender::is_connected is true exactly when
\* the Receiver or the Manager is alive; whenever the Receiver exists,
\* Receiver::is_connected is true exactly when a Sender is alive (the
\* Manager is not counted).
C14_IsConnected ==
    /\ ~NoSenders => (SenderIsConnected(ref_count) <=> (rcv.h \/ mgr))
    /\ rcv.h => (ReceiverIsConnected(ref_count) <=> ~NoSenders)

\* The Receiver is not connected although the Manager is alive.
C14_Witness == rcv.h /\ mgr /\ NoSenders /\ ~ReceiverIsConnected(ref_count)

\* C15 as stated: after the Receiver was dropped, Manager::new_receiver
\* returned a Receiver and the Manager was dropped with a Sender alive,
\* Sender::is_connected is false.
C15_Orig_DisconnectedAfterManagerDrop ==
    (ret.op = "drop_manager" /\ rcv.by_manager /\ ~NoSenders)
        => ~SenderIsConnected(ref_count)

\* C15, amended: after the Manager was dropped with a Sender alive,
\* Sender::is_connected is true exactly when a Receiver is alive, the one
\* Manager::new_receiver returned included; it is false once that Receiver
\* was dropped too.
C15_ConnectedWhileNewReceiverAlive ==
    (ret.op = "drop_manager" /\ ~NoSenders) => (SenderIsConnected(ref_count) <=> rcv.h)

\* The Manager was dropped with a Sender and the Receiver it made alive.
C15_Witness ==
    /\ ret.op = "drop_manager" /\ rcv.by_manager /\ ~NoSenders
    /\ SenderIsConnected(ref_count)

\* C16: the channel is freed exactly when the last handle is gone (no
\* Sender, no Receiver, no Manager), by the drop of that handle, it stays
\* freed, and no call is in progress on it when it is freed.
C16_FreedOnceByLastDrop ==
    /\ [](freed <=> (NoSenders /\ ~rcv.h /\ ~mgr))
    /\ [](freed => (Quiet /\ ref_count = 0))
    /\ [][freed => freed']_vars
    /\ [][(freed' /\ ~freed) =>
            ret'.op \in {"drop_sender", "drop_receiver", "drop_manager"}]_vars

\* The channel was freed by a Sender's drop that another handle operation
\* overlapped.
C16_Witness == freed /\ ret.op = "drop_sender" /\ ~ret.clean

\* The latest step was a next_process call.
NextProcessCalled == Len(log') = Len(log) + 1
\* What the latest next_process call returned.
LastReturned(l) == l[Len(l)]
InSeq(p, q) == \E i \in DOMAIN q : q[i] = p
Places(pid) ==
    Cardinality({i \in DOMAIN ready : ready[i].id = pid})
    + Cardinality({p \in inactive : p.id = pid})
    + Cardinality({i \in DOMAIN running : running[i].id = pid})

\* C17: in every scheduler state reachable by add_new_process, mark_ready,
\* next_process, add_back_process and complete, a next_process call returns
\* Some(process) when has_ready_process() is true and None when no process
\* is READY.
C17_NextProcessSomeIffReady ==
    [][NextProcessCalled =>
        (has_ready_process <=> LastReturned(log') # NoProcess)]_vars

\* Processes are stored but none is READY: next_process returned the only
\* READY process and then None.
C17_Witness ==
    /\ Len(log) = 2 /\ log[1] # NoProcess /\ log[2] = NoProcess
    /\ inactive # {}

\* The processes that were READY when the next_process calls of the log
\* began.
ReadyAtStart == {log[i] : i \in {j \in DOMAIN log : log[j] # NoProcess}}
                \cup {ready[i] : i \in DOMAIN ready}
\* They are three, of priority LOW, NORMAL and HIGH, and none has run.
ThreeFresh ==
    /\ Cardinality(ReadyAtStart) = 3
    /\ {p.priority : p \in ReadyAtStart} = Priorities
    /\ \A p \in ReadyAtStart : p.runtime = 0
PriorityOf(p) == IF p = NoProcess THEN "None" ELSE p.priority

\* C18: with three READY processes of priority LOW, HIGH and NORMAL (added
\* in any order, with any ids) none of which has run, successive
\* next_process calls return the HIGH one, then the NORMAL one, then the LOW
\* one, then None.
C18_HighNormalLowNone ==
    ThreeFresh =>
        \A i \in DOMAIN log :
            PriorityOf(log[i]) = <<"HIGH", "NORMAL", "LOW", "None">>[IF i < 4 THEN i ELSE 4]

\* Four calls were made; the LOW process has the smallest id and was added
\* first.
C18_Witness ==
    /\ ThreeFresh /\ Len(log) = 4
    /\ log[3].id = 1 /\ log[1].id = 3

\* a goes before b in the order as stated: by weighted runtime, then by id.
StatedBefore(a, b) ==
    \/ a.runtime * priority_multiplier(a.priority)
         < b.runtime * priority_multiplier(b.priority)
    \/ /\ a.runtime * priority_multiplier(a.priority)
            = b.runtime * priority_multiplier(b.priority)
       /\ a.id < b.id
\* a goes before b: by weighted runtime, then by priority (HIGH, NORMAL,
\* LOW), then by id.
PriorityIndex(priority) ==
    IF priority = "HIGH" THEN 1 ELSE IF priority = "NORMAL" THEN 2 ELSE 3
AmendedBefore(a, b) ==
    LET wa == a.runtime * priority_multiplier(a.priority)
        wb == b.runtime * priority_multiplier(b.priority)
    IN  \/ wa < wb
        \/ wa = wb /\ PriorityIndex(a.priority) < PriorityIndex(b.priority)
        \/ wa = wb /\ a.priority = b.priority /\ a.id < b.id
\* The latest next_process call took p out of the ready queue.
Removed(p) ==
    /\ InSeq(p, ready)
    /\ Len(ready') = Len(ready) - 1
    /\ \E i \in DOMAIN ready : ready[i] = p /\ ready' = RemoveAt(ready, i)
    /\ running' = Append(running, p)

\* C19 as stated: next_process removes and returns the READY process that
\* is smallest when equal weighted runtimes are ordered by the smaller
\* ProcessId.
C19_Orig_SmallestByWeightThenId ==
    [][(NextProcessCalled /\ has_ready_process) =>
        LET p == LastReturned(log')
        IN  /\ Removed(p)
            /\ \A i \in DOMAIN ready : ~StatedBefore(ready[i], p)]_vars

\* C19, amended: next_process removes and returns the READY process that is
\* smallest under: a < b iff a's weighted runtime (runtime *
\* priority_multiplier) is smaller, or the weighted runtimes are equal and
\* a's priority is higher, or both are equal and a's ProcessId is smaller.
C19_SmallestByWeightThenPriority ==
    [][(NextProcessCalled /\ has_ready_process) =>
        LET p == LastReturned(log')
        IN  /\ Removed(p)
            /\ \A i \in DOMAIN ready : ~AmendedBefore(ready[i], p)]_vars

\* next_process returned a process that has run, ahead of a READY process
\* of the same weighted runtime, a lower priority and a smaller id.
C19_Witness ==
    /\ log # <<>>
    /\ LET p == LastReturned(log)
       IN  /\ p # NoProcess /\ p.runtime > 0
           /\ \E i \in DOMAIN ready :
                /\ weighted_runtime(ready[i]) = weighted_runtime(p)
                /\ ready[i].priority # p.priority
                /\ ready[i].id < p.id

\* C20: a process is in at most one of the ready queue, the inactive set
\* and the hands of a caller of next_process: however often mark_ready is
\* called for a pid, the process is not twice in the ready queue and
\* next_process does not return it again before add_back_process.
C20_AtMostOnePlace == \A pid \in Pids : Places(pid) <= 1

\* mark_ready was called twice in a row for an INACTIVE process; then
\* next_process returned it, and after that None.
C20_Witness ==
    /\ marked.n = 2
    /\ Len(log) = 2 /\ log[1].id = marked.pid /\ log[2] = NoProcess
    /\ \E i \in DOMAIN running : running[i].id = marked.pid

\* The scheduler stores a process with this pid (READY or INACTIVE).
InScheduler(pid) == pid \in IdsOf(ready) \cup {p.id : p \in inactive}
SchedulerKept ==
    /\ UNCHANGED <<ready, inactive, running>>
    /\ has_process' = has_process
    /\ has_ready_process' = has_ready_process

\* C21: mark_ready(pid) for a pid that is not in the scheduler can always be
\* called and changes nothing (has_process and has_ready_process keep
\* their values); so can, and so does, waking a task waker whose process is
\* gone or whose runtime internals do not exist.
C21_StalePidChangesNothing ==
    /\ [](\A pid \in Pids : ENABLED mark_ready(pid))
    /\ [](\A k \in 1 .. MaxWakers :
            wakers[k] # NoWaker => ENABLED wake(k) /\ ENABLED wake_by_ref(k))
    /\ [][\A pid \in Pids :
            (mark_ready(pid) /\ ~InScheduler(pid)) => SchedulerKept]_vars
    /\ [][\A k \in 1 .. MaxWakers :
            ((wake(k) \/ wake_by_ref(k))
             /\ (~InScheduler(wakers[k].pid) \/ ~upgrade(wakers[k].slot)))
            => SchedulerKept]_vars

\* mark_ready was called for a pid that is not in the scheduler and a waker
\* without runtime internals was woken, for the pid of an INACTIVE process
\* that is still INACTIVE.
C21_Witness ==
    /\ marked.n >= 1 /\ ~InScheduler(marked.pid)
    /\ woke.slot = 2 /\ \E p \in inactive : p.id = woke.pid

IsInactive(pid) == \E p \in inactive : p.id = pid
IsReady(pid) == pid \in IdsOf(ready)
\* The same in the state after the step.
InactiveAfter(pid) == \E p \in inactive' : p.id = pid
ReadyAfter(pid) == pid \in IdsOf(ready')
\* The INACTIVE process pid has become READY.
BecomesReady(pid) ==
    /\ ReadyAfter(pid) /\ ~InactiveAfter(pid)
    /\ has_process' /\ has_ready_process'

\* C22: a newly added process is READY (has_process and has_ready_process
\* are true); add_back_process after next_process makes it INACTIVE
\* (has_process true, has_ready_process false when it is the only process);
\* mark_ready(pid) or a wake of its task waker (also of a clone whose
\* original was dropped) then makes it READY and the next next_process
\* returns it; after complete(process) of the only process has_process is
\* false.
C22_Transitions ==
    [][/\ \A pid \in Pids :
            add_new_process("NORMAL", pid, pid) =>
                ReadyAfter(pid) /\ has_process' /\ has_ready_process'
       /\ \A i \in DOMAIN running :
            add_back_process(i) =>
                /\ InactiveAfter(running[i].id) /\ ~ReadyAfter(running[i].id)
                /\ has_process'
                /\ (ready = <<>> => ~has_ready_process')
       /\ \A pid \in Pids :
            (mark_ready(pid) /\ IsInactive(pid)) => BecomesReady(pid)
       /\ \A k \in 1 .. MaxWakers :
            ((wake(k) \/ wake_by_ref(k)) /\ upgrade(wakers[k].slot)
             /\ IsInactive(wakers[k].pid)) => BecomesReady(wakers[k].pid)
       /\ (next_process /\ Len(ready) = 1) => LastReturned(log') = ready[1]
       /\ \A i \in DOMAIN running :
            (complete(i) /\ ready = <<>> /\ inactive = {}) => ~has_process'
      ]_vars

\* The wake of a clone whose original was dropped made the INACTIVE process
\* READY, and the next next_process returned it.
C22_Witness ==
    /\ woke.orphan /\ woke.found
    /\ Len(log) = 1 /\ log[1].id = woke.pid

StoredOrHeld == {ready[i] : i \in DOMAIN ready} \cup inactive
                \cup {running[i] : i \in DOMAIN running}

LiveWakers == {k \in 1 .. MaxWakers : wakers[k] # NoWaker}

\* C24: two task wakers will_wake each other, in both directions, if and
\* only if they were made for the same (Wakers, pid) pair: wakers made
\* separately for the same pid and clones of a waker do, wakers for
\* different pids (or of different Wakers) do not.
C24_WillWakeIffSamePair ==
    \A j, k \in LiveWakers :
        /\ will_wake(wakers[j], wakers[k]) <=>
                (wakers[j].slot = wakers[k].slot /\ wakers[j].pid = wakers[k].pid)
        /\ will_wake(wakers[j], wakers[k]) <=> will_wake(wakers[k], wakers[j])

\* A waker and a waker made separately for the same pair exist.
C24_Witness ==
    /\ LiveWakers = {1, 2}
    /\ ~wakers[1].clone /\ ~wakers[2].clone
    /\ will_wake(wakers[1], wakers[2]) /\ will_wake(wakers[2], wakers[1])

----------------------------------------------------------------------------
(* The worker's event loop.                                                 *)

BothEmpty == ~sched_has_process(scheduler) /\ ~sched_has_process(scheduler_ref)
\* The worker waits in Poll::poll with a timeout that is not zero.
Blocked == worker.pc = "polling" /\ worker.timeout # 0

\* C25: run_event_loop returns Ok exactly when neither the local nor the
\* shared scheduler holds a process: it never returns while a READY or
\* INACTIVE process remains in either, and once both are empty (and no
\* process is being run) it returns without waiting in the OS poll, also
\* when the last process completed in the RUN_POLL_RATIO-th pass of a batch.
C25_ReturnsIffEmpty ==
    /\ worker.pc = "done" => BothEmpty
    /\ BothEmpty /\ worker.pc \in {"poll", "polling"} => ~Blocked

\* C26: a batch runs at most RUN_POLL_RATIO processes before the worker
\* polls again, and a thread-local process that is ready is run within a
\* bounded number of dispatches (here: fewer than MaxWaited, more than a
\* whole batch), however often shared processes become ready meanwhile.
C26_BatchBoundedAndFair ==
    /\ worker.iter < RUN_POLL_RATIO
    /\ worker.waited < MaxWaited

InLocal(pid) == pid \in scheduler.ready \cup scheduler.inactive
InShared(pid) == pid \in scheduler_ref.ready \cup scheduler_ref.inactive
InNoSchedulerAfter(pid) ==
    pid \notin scheduler'.ready \cup scheduler'.inactive
               \cup scheduler_ref'.ready \cup scheduler_ref'.inactive
\* After the step the pid is INACTIVE in the scheduler `from` and is not in
\* the other one.
InactiveInAfter(pid, from) ==
    IF from = "shared"
    THEN /\ pid \in scheduler_ref'.inactive /\ pid \notin scheduler_ref'.ready
         /\ pid \notin scheduler'.ready \cup scheduler'.inactive
    ELSE /\ pid \in scheduler'.inactive /\ pid \notin scheduler'.ready
         /\ pid \notin scheduler_ref'.ready \cup scheduler_ref'.inactive
\* The step hands the pid to process.run().
Dispatched(pid) == worker.pc = "batch" /\ worker'.pc = "run" /\ worker'.pid = pid
MarksReady(pid) ==
    \/ schedule_processes
    \/ shared_mark_ready(pid)

\* C27: a dispatch runs the process once.  After Complete the process is in
\* no scheduler and is never dispatched again; after Pending it is INACTIVE
\* in the scheduler it was taken from (and in no other place), and only a
\* marking ready makes it READY, and so dispatched, again.
C27_RunOncePerDispatch ==
    /\ [][run_complete =>
            /\ worker.polls = 0 /\ worker'.polls = 1
            /\ InNoSchedulerAfter(worker.pid)
            /\ worker.pid \in worker'.done]_vars
    /\ [](\A pid \in worker.done :
            ~InLocal(pid) /\ ~InShared(pid) /\ worker.pid # pid)
    /\ [][(\E delay \in 0 .. MaxDelay : run_pending(delay)) =>
            /\ worker.polls = 0 /\ worker'.polls = 1
            /\ InactiveInAfter(worker.pid, worker.from)]_vars
    /\ [][\A pid \in LocalPids \cup SharedPids :
            /\ Dispatched(pid) =>
                pid \in scheduler.ready \cup scheduler_ref.ready
            /\ (pid \in scheduler.inactive \cup scheduler_ref.inactive
                /\ pid \in scheduler'.ready \cup scheduler_ref'.ready)
                => MarksReady(pid)]_vars
\* In one batch a process completed and the shared process returned Pending.
C27_Witness ==
    /\ worker.pc = "batch" /\ worker.iter = 2
    /\ worker.done = LocalPids
    /\ scheduler_ref.inactive = SharedPids

AnythingReady ==
    \/ scheduler.ready # {}
    \/ scheduler_ref.ready # {}
    \/ waker_events # {}
Deadlines == {t.deadline : t \in timers}
IsNextDeadline(d) == d \in Deadlines /\ \A e \in Deadlines : d <= e
\* The worker waits in Poll::poll without a timeout and no event has come.
WaitsForEvent ==
    /\ worker.pc = "polling" /\ worker.timeout = NoTimeout
    /\ waker_events = {} /\ scheduler_ref.ready = {}

\* C28: the timeout the worker polls with is 0 if the local or the shared
\* scheduler has a ready process or a waker event is queued; else it is the
\* next timer deadline minus now, or 0 if that deadline has passed; else,
\* without timers, there is none and the poll only returns on an event.
C28_PollTimeout ==
    /\ [][poll =>
            /\ AnythingReady => worker'.timeout = 0
            /\ ~AnythingReady =>
                /\ \A d \in Deadlines : IsNextDeadline(d) =>
                      worker'.timeout = (IF d <= now THEN 0 ELSE d - now)
                /\ timers = {} => worker'.timeout = NoTimeout]_vars
    /\ [](WaitsForEvent => ~ENABLED schedule_processes)
\* The worker polls until the earlier of two deadlines, which is ahead.
C28_Witness ==
    /\ worker.pc = "polling" /\ worker.timeout > 0
    /\ Cardinality(timers) = 2
    /\ worker.until = now + worker.timeout

----------------------------------------------------------------------------
(* ActorProcess::run.                                                       *)

RunReturned == actor_process.pc = "idle" /\ actor_process.result # "none"
RestartsActor ==
    \E arg \in Args : actor_decide(arg, TRUE)

\* C29: run returns Pending iff the last poll of the (possibly restarted)
\* actor was Pending; it returns Complete when the actor returned Ok, when
\* the supervisor decided Stop or when NewActor::new failed in a restart; a
\* restart puts an actor with the same pid and the same inbox in place and
\* polls it at once, in the same call of run.
C29_RunResult ==
    /\ [](RunReturned =>
            /\ actor_process.result = "Pending" <=>
                  actor_process.polled = "Pending"
            /\ actor_process.result = "Complete" <=>
                  actor_process.polled \in {"Ok", "Stop", "NewFailed"}
            /\ actor_process.polls = actor_process.restarted + 1)
    /\ [][RestartsActor =>
            /\ actor_process'.actor.pid = actor_process.pid
            /\ actor_process'.actor.inbox = actor_process.inbox
            /\ actor_process'.actor.restarts = actor_process.actor.restarts + 1
            /\ actor_process'.runs = actor_process.runs
            /\ actor_process'.pc = "try_poll"
            /\ actor_process'.result = "none"]_vars
    /\ [](actor_process.pc = "try_poll" =>
            /\ ENABLED (\E polled \in {"Ok", "Err", "Pending"} :
                            actor_try_poll(polled))
            /\ ~ENABLED actor_run)
\* A run that restarted the actor twice returned Pending.
C29_Witness ==
    /\ RunReturned /\ actor_process.result = "Pending"
    /\ actor_process.polls = 3 /\ actor_process.restarted = 2
    /\ actor_process.runs = 1

----------------------------------------------------------------------------
(* Spawning.                                                                *)

\* C30: an actor spawned with the default options (priority NORMAL, ready
\* false) is not READY after the spawn (only a later marking ready makes it
\* so); an actor spawned with the ready option set is READY after the spawn.
C30_ReadyOnlyWithOption ==
    [][\A pid \in Pids :
        /\ try_spawn(default_options, pid) => ~ReadyAfter(pid)
        /\ try_spawn(options_mark_ready(default_options), pid) =>
              ReadyAfter(pid)]_vars

----------------------------------------------------------------------------
(* Send futures on a full channel.                                          *)

ParkedUnwoken(s) == fut[s].st = "pending" /\ task[s].parked /\ task[s].nwake = 0
\* Sender s is about to start the second try_send of a poll.
AtRetry(s) == snd[s].pc = "retry"
NoWakeUpOutstanding == \A s \in Senders : task[s].nwake = 0

\* C31: for every interleaving of SendValue::poll with try_recv, the waker
\* of a poll is linked in the pending-sender list when its second try_send
\* begins and when it returns Pending (unless a try_recv has popped and
\* invoked it meanwhile), and no sender stays parked while a slot is EMPTY
\* and no wake-up is outstanding: a slot freed after the registration is
\* used by the retry or its try_recv wakes a pending sender.
C31_RegisterThenRetry ==
    /\ \A s \in Senders :
        ((AtRetry(s) \/ (SendPolled("Pending") /\ ret.who = s))
         /\ task[s].nwake = 0) => Linked(s) /\ nodes[s].waker = s
    /\ (Quiet /\ NoWakeUpOutstanding /\ \E s \in Senders : ParkedUnwoken(s))
           => NoEmptySlot

\* C32: whenever a poll of a RecvValue future has returned Pending, also a
\* poll of a later recv() future with the same task waker after an earlier
\* wake-up, the receiver's waker is stored and receiver_needs_wakeup is true
\* (so that the send that fills the slot at the receiver position wakes it).
C32_PendingSetsNeedsWakeup ==
    RecvPolled("Pending") => receiver_waker = RecvId /\ receiver_needs_wakeup

\* C33: for every interleaving of Sender drops with the receiver's polls,
\* once the sender count is zero a recv future is not left Pending without
\* a wake-up: the drop of the last Sender invoked the receiver's waker and
\* the poll made in response returned Ready(None), not Pending again.
C33_LastDropSeenByPoll ==
    /\ [][\A s \in Senders :
            (DropSenderSub(s) /\ ~ReceiverIsConnected(ref_count')
             /\ rcv.h /\ task[RecvId].parked) => task'[RecvId].nwake > 0]_vars
    /\ []((Quiet /\ RecvPolled("Pending") /\ ~ReceiverIsConnected(ref_count))
            => task[RecvId].nwake > 0)

----------------------------------------------------------------------------
(* Ownership of a slot's cell.                                              *)

\* Sender s is between the fetch_or(MARK_TAKEN) that acquired `slot` and its
\* fetch_or(MARK_FILLED): the window in which it writes the cell.
HoldsSlot(s, slot) ==
    snd[s].pc = "fill" /\ ScanSlot(snd[s].start, snd[s].k) = slot
\* The receiver is between the fetch_xor(MARK_READING) that found `slot`
\* FILLED and its fetch_and(!MARK_EMPTIED): the window in which it reads.
ReadsSlot(slot) ==
    rcv.pc = "read" /\ ScanSlot(rcv.start, rcv.k) = slot
SlotOf(s) == ScanSlot(snd[s].start, snd[s].k)

\* C34: under every interleaving a slot is held by at most one sender, and
\* not while the receiver reads it; a sender whose fetch_or(MARK_TAKEN)
\* found the slot not EMPTY (READING included, which the OR turns into
\* FILLED) does not go on to write; the receiver reads only a slot its
\* fetch_xor saw FILLED, whose cell holds a value, and its fetch_and leaves
\* the slot EMPTY; a cell is written only when it holds no value.
C34_SlotExclusive ==
    /\ [](\A slot \in Slots :
            /\ \A s, u \in Senders :
                  (HoldsSlot(s, slot) /\ HoldsSlot(u, slot)) => s = u
            /\ \A s \in Senders : HoldsSlot(s, slot) =>
                  /\ has_status(status, slot, TAKEN)
                  /\ ~ReadsSlot(slot)
                  /\ slots[slot] = 0
            /\ ReadsSlot(slot) =>
                  /\ is_filled(rcv.status, slot)
                  /\ slot_status(status, slot) \in {READING, FILLED}
                  /\ slots[slot] # 0)
    /\ [][/\ \A s \in Senders :
              (TsTake(s) /\ ~has_status(status, SlotOf(s), EMPTY))
                  => snd'[s].pc # "fill" /\ slots' = slots
          /\ \A slot \in Slots :
              (TrRead /\ ReadsSlot(slot)) => has_status(status', slot, EMPTY)]_vars

C34_Witness ==
    \E s \in Senders : \E slot \in Slots :
        /\ ReadsSlot(slot)
        /\ has_status(status, slot, FILLED)
        /\ has_status(snd[s].status, slot, READING)
        /\ snd[s].pc \in {"take", "full"}

----------------------------------------------------------------------------
(* The receiver position.                                                   *)

SameSlotStatuses(st, after) ==
    \A slot \in Slots : slot_status(after, slot) = slot_status(st, slot)

\* C35: the fetch_add(MARK_NEXT_POS) that every try_recv makes once, whether
\* it finds a value or not, moves the receiver position on by exactly one
\* modulo SMALL_CAP and leaves every slot's status bits as they were, also
\* when the status word overflows and wraps around; no other step of
\* try_send or try_recv moves the position.
C35_CursorAdvancesByOne ==
    [][IF TrAdd
       THEN /\ receiver_pos(status') = (receiver_pos(status) + 1) % SMALL_CAP
            /\ SameSlotStatuses(status, status')
            /\ rcv'.pc # "add"
       ELSE receiver_pos(status') = receiver_pos(status)]_vars

\* A try_recv whose fetch_add wrapped the status word around while slots
\* were not EMPTY.
C35_Witness ==
    /\ rcv.pc = "xor"
    /\ rcv.status + MARK_NEXT_POS >= WordMod
    /\ receiver_pos(rcv.status) = SMALL_CAP - 1
    /\ receiver_pos(status) = 0
    /\ \E slot \in Slots : has_status(status, slot, FILLED)
    /\ \E slot \in Slots : has_status(status, slot, TAKEN)

----------------------------------------------------------------------------
(* The pending-sender list under interleaving.                              *)

\* Following the links from pointer p ends at null without meeting a node twice.
RECURSIVE EndsFrom(_, _)
EndsFrom(p, seen) ==
    IF p = 0 THEN TRUE
    ELSE IF p \in seen THEN FALSE
    ELSE EndsFrom(waker_list.next[p], seen \cup {p})
RECURSIVE ReachFrom(_, _)
ReachFrom(p, seen) ==
    IF p = 0 \/ p \in seen THEN seen
    ELSE ReachFrom(waker_list.next[p], seen \cup {p})
InList == ReachFrom(waker_list.head, {})
ListQuiet == \A t \in ListThreads : waker_list.calls[t].pc = "idle"
\* Nodes that were added and neither popped by next_waker nor removed.
StillRegistered ==
    {n \in ListNodes : waker_list.fut[n] = "listed" /\ n \notin waker_list.popped}

\* C36: for every interleaving of add_waker, next_waker and remove_waker the
\* list from sender_waker_head is acyclic, and once the calls have returned
\* every node that was added and was neither popped nor removed is reachable
\* from the head.
C36_ListKeepsNodes ==
    /\ EndsFrom(waker_list.head, {})
    /\ ListQuiet => StillRegistered \subseteq InList

Dropped == {n \in ListNodes : waker_list.fut[n] = "dropped"}

\* C37: once the drop of a send future that had registered has returned,
\* its node is not reachable from sender_waker_head and no next_waker (its
\* add_waker included) reads or writes the node; a next_waker that popped a
\* node without a waker does not return but pops again.
C37_DropAtomicWithPop ==
    /\ [](Dropped \cap InList = {} /\ 0 \notin waker_list.uaf)
    /\ [][(NwDecide /\ waker_list.calls[0].waker = 0)
            => waker_list'.calls[0].pc = "nw_load"]_vars

----------------------------------------------------------------------------
(* Which waker a receive wakes.                                             *)

\* Node n was added to the list before node m.
AddedBefore(n, m) ==
    \E i, j \in 1 .. Len(waker_list.order) :
        i < j /\ waker_list.order[i] = n /\ waker_list.order[j] = m

\* C38: with the calls made one after the other, the next_waker of a
\* successful try_recv returns at most one waker: that of the node that was
\* added earliest among the nodes in the list, so that successive receives
\* wake the parked senders in the order of their registration; the waker it
\* returns is the one the future's latest poll supplied; and no node's waker
\* is returned twice.
C38_WakesEarliestOnce ==
    /\ [](\A n \in ListNodes : waker_list.wakes[n] <= 1)
    /\ [][NwDecide =>
            LET c == waker_list.calls[0]
                h == c.head_ptr
            IN  IF c.waker = 0 THEN waker_list'.woken = waker_list.woken
                ELSE /\ waker_list'.woken = waker_list.woken \cup {<<h, c.waker>>}
                     /\ c.waker = waker_list.supplied[h]
                     /\ waker_list.wakes[h] = 0
                     /\ \A m \in InList : AddedBefore(h, m)]_vars

\* The first of two parked futures was polled again with another waker, and
\* a receive has woken that waker while the second future is still parked.
C38_Witness ==
    \E n, m \in ListNodes :
        /\ ListQuiet
        /\ waker_list.order = <<n, m>>
        /\ waker_list.supplied[n] # waker_list.first[n]
        /\ waker_list.woken = {<<n, waker_list.supplied[n]>>}
        /\ InList = {m}

----------------------------------------------------------------------------
(* The polling mark of the worker.                                          *)

\* The worker is inside Poll::poll.
InOsPoll == worker.pc = "polling"
\* waker::mark_polling(id, true) was called and not yet taken back.
MarkedPolling == InOsPoll /\ worker.mark_waker

\* C40: while the worker is inside Poll::poll it is marked as polling if and
\* only if the timeout is not zero (a timeout of whole seconds and no
\* timeout included), outside of Poll::poll it is not marked, and is_zero
\* is true of the zero duration only.
C40_PollingMarkedUnlessZero ==
    /\ InOsPoll => (worker.mark_waker <=> worker.timeout # 0)
    /\ InOsPoll => (is_zero(worker.timeout) <=> worker.timeout = 0)
    /\ ~InOsPoll => ~worker.mark_waker

----------------------------------------------------------------------------
(* Wake-ups while a process is being run.                                   *)

====
